---- MODULE Spec2Model ----
(***************************************************************************)
(* A model of the page-analysis and site-crawl pipeline of                 *)
(* backend/src/services/checker.js (web-site-checker-v2).                  *)
(*                                                                         *)
(* Spec      : one top-level call of crawlSite or countPages.  Every       *)
(*             checkSinglePage call of a crawl batch is a task that moves  *)
(*             from one await of the source to the next.                   *)
(* SpecPage  : one checkSinglePage call with its four concurrently         *)
(*             launched sub-checks followed one by one.                    *)
(*                                                                         *)
(* URLs are records (scheme, host, path segments, trailing slash, query,   *)
(* fragment); a path segment is a record (name, ext) so that "ends with    *)
(* .pdf" is a property of the last segment.                                *)
(***************************************************************************)
EXTENDS Integers, Sequences, FiniteSets, TLC

VARIABLES
    op,             \* the exported function that was called
    startUrl,       \* argument startUrl
    urls,           \* argument urls (crawlSite)
    auth,           \* argument auth
    pc,             \* position of the top-level call
    urlsToAnalyze,  \* crawlSite: urlsToAnalyze
    i,              \* crawlSite: loop variable i
    results,        \* crawlSite: results
    tasks,          \* crawlSite: the checkSinglePage calls of the current batch
    ret,            \* value returned / error thrown by the top-level call
    currentUrl,     \* global.currentUrl
    launchCount,    \* browsers launched by checkSinglePage so far
    launchFailed,   \* some puppeteer.launch() call has rejected
    outOfOrder,     \* a page of a batch settled before an earlier page of it
    dpc,            \* position of discoverUrls / countPages
    dbrowser,       \* the browser of discoverUrls / countPages
    dpage,          \* the page opened for the URL being visited
    toVisit,        \* discoverUrls: toVisit
    visited,        \* discoverUrls: visited
    discovered,     \* discoverUrls: discovered
    cur,            \* discoverUrls: currentUrl (the dequeued URL)
    dret,           \* value returned / error thrown by discoverUrls / countPages
    navFailed,      \* the URLs whose per-URL try block of the traversal has thrown
    purl,           \* checkSinglePage: argument url
    checkA11y,      \* process.env.CHECK_A11Y !== 'false'
    ppc,            \* position of checkSinglePage
    pbrowser,       \* checkSinglePage: browser
    pages,          \* the pages opened in that browser
    sub,            \* position of each of the four concurrent sub-checks
    val,            \* what each sub-check has produced so far
    failed,         \* the sub-checks in which an operation has failed
    ppending,       \* the completion of the try block of checkSinglePage
    pret,           \* value returned / error thrown by checkSinglePage
    log,            \* the lines written with console.log / info / warn / error
    req,            \* server: the HTTP request being served
    env,            \* server: process.env
    res,            \* server: the response sent
    spc,            \* server: position of the request in the middleware chain
    callee,         \* the synchronous function applied to args
    args,           \* its argument
    result          \* what it returned

crawlVars == <<pc, urlsToAnalyze, i, results, tasks, ret, currentUrl,
               launchCount, launchFailed, outOfOrder>>
discVars  == <<dpc, dbrowser, dpage, toVisit, visited, discovered, cur, dret,
               navFailed>>
argVars   == <<op, startUrl, urls, auth>>
pageVars  == <<purl, checkA11y, ppc, pbrowser, pages, sub, val, failed,
               ppending, pret>>
srvVars   == <<req, env, res, spc>>
libVars   == <<callee, args, result>>
vars      == <<argVars, crawlVars, discVars, pageVars, log, srvVars, libVars>>

(***************************************************************************)
(* Bounds                                                                  *)
(***************************************************************************)
MaxUrls == 4        \* longest URL list handed to crawlSite
MaxHeadings == 3    \* longest sequence of headings of a document
MaxPageLinks == 22  \* most links on the page handed to collectSiteLinks
MaxTags == 5        \* most tags of the markup handed to checkUnclosedTags
MaxSvgs == 2        \* most svg elements of a document
MaxImagesWithoutAlt == 11   \* most img elements without alt on a page

(***************************************************************************)
(* URLs                                                                    *)
(***************************************************************************)
Seg(n, e) == [name |-> n, ext |-> e]

Url(h, p, s) == [scheme |-> "https", host |-> h, path |-> p, slash |-> s,
                 query |-> {}, frag |-> FALSE]

Root     == Url("x.com", <<>>, TRUE)
DirPage  == Url("x.com", <<Seg("dir", ""), Seg("page", "")>>, FALSE)
BlogPost == Url("x.com", <<Seg("blog", ""), Seg("post", "")>>, FALSE)

\* what `new URL(s)` throws on
NotAUrl == [scheme |-> "", host |-> "", path |-> <<>>, slash |-> FALSE,
            query |-> {}, frag |-> FALSE]

IsParseable(u) == u.scheme # ""

\* url.origin + url.pathname
OriginPlusPathname(u) == [u EXCEPT !.query = {}, !.frag = FALSE,
                                   !.slash = IF u.path = <<>> THEN TRUE ELSE u.slash]

\* x.endsWith('/') && x !== origin + '/' ? x.slice(0, -1) : x
StripTrailingSlash(u) ==
    IF u.slash /\ u.path # <<>> THEN [u EXCEPT !.slash = FALSE] ELSE u

(***************************************************************************)
(* Image sources and their resolution (analyzeImages)                      *)
(***************************************************************************)
\* the value of an <img src="..."> attribute:
\*   kind "absolute"  http(s)://host/path     kind "protocol"  //host/path
\*   kind "root"      /path                   kind "relative"  path
Src(k, h, p) == [kind |-> k, host |-> h, path |-> p]

APng == Seg("a", ".png")

\* new URL(src, base).href for a src that has no scheme and no host
ResolveAgainst(src, base) ==
    IF src.kind = "root"
    THEN Url(base.host, src.path, FALSE)
    ELSE Url(base.host,
             (IF base.slash \/ base.path = <<>>
              THEN base.path
              ELSE SubSeq(base.path, 1, Len(base.path) - 1)) \o src.path,
             FALSE)

\* global.currentUrl || 'https://example.com'
ExampleCom == Url("example.com", <<>>, TRUE)
NoUrl      == NotAUrl       \* global.currentUrl before the first call (undefined)

BaseUrl(g) == IF g = NoUrl THEN ExampleCom ELSE g

\* absoluteSrc of analyzeImages; g is the value of global.currentUrl
AbsoluteSrc(src, g) ==
    IF src.kind = "absolute" THEN Url(src.host, src.path, FALSE)
    ELSE IF src.kind = "protocol" THEN Url(src.host, src.path, FALSE)
    ELSE ResolveAgainst(src, BaseUrl(g))

(***************************************************************************)
(* The site under analysis: the markup the browser renders for each URL    *)
(***************************************************************************)
External == Url("y.org", <<>>, TRUE)

\* a second site, whose pages link to each other in every way the link filter
\* of the traversal distinguishes
WRoot     == Url("w.com", <<>>, TRUE)
WAbout    == Url("w.com", <<Seg("about", "")>>, FALSE)
WPlain    == Url("w.com", <<Seg("plain", "")>>, FALSE)
WDocPdf   == Url("w.com", <<Seg("doc", ".pdf")>>, FALSE)
WNews     == Url("w.com", <<Seg("news", "")>>, FALSE)
WProducts == Url("w.com", <<Seg("products", "")>>, FALSE)

\* the src attribute of the <img> (without alt) of each page
ImgOf(u) ==
    IF u = DirPage THEN Src("root", "", <<Seg("img", ""), APng>>)
    ELSE IF u = BlogPost THEN Src("relative", "", <<APng>>)
    ELSE Src("protocol", "cdn.x.com", <<APng>>)

\* the a[href] values of each page, in document order
LinksOf(u) ==
    IF u = Root
    THEN << [DirPage EXCEPT !.query = {"utm"}],
            [BlogPost EXCEPT !.slash = TRUE],
            External,
            [Root EXCEPT !.frag = TRUE],
            Url("x.com", <<Seg("doc", ".pdf")>>, FALSE) >>
    ELSE IF u = DirPage
    THEN << Root, BlogPost >>
    ELSE IF u = BlogPost
    THEN << DirPage, Url("x.com", <<Seg("login", "")>>, FALSE) >>
    ELSE IF u = WRoot
    THEN << [WAbout EXCEPT !.slash = TRUE],
            [WAbout EXCEPT !.query = {"utm"}],
            [WPlain EXCEPT !.scheme = "http"],
            WDocPdf,
            [WDocPdf EXCEPT !.slash = TRUE],
            External,
            [Url("w.com", <<>>, FALSE) EXCEPT !.scheme = "mailto"],
            [WNews EXCEPT !.query = {"page"}],
            [WRoot EXCEPT !.frag = TRUE],
            WProducts >>
    ELSE IF u = WAbout
    THEN << WRoot, WProducts, [WAbout EXCEPT !.frag = TRUE] >>
    ELSE IF u = WProducts
    THEN << WAbout,
            Url("w.com", <<Seg("page", ""), Seg("2", "")>>, FALSE),
            Url("w.com", <<Seg("contact", "")>>, FALSE),
            WNews >>
    ELSE << >>

(***************************************************************************)
(* Arguments                                                               *)
(***************************************************************************)
NullAuth == [isNull |-> TRUE, username |-> "", password |-> ""]
Creds    == [isNull |-> FALSE, username |-> "user", password |-> "secret"]
NoPass   == [isNull |-> FALSE, username |-> "user", password |-> ""]

\* auth && auth.username && auth.password
HasCredentials(a) == ~a.isNull /\ a.username # "" /\ a.password # ""

NullUrls     == [kind |-> "null"]
UrlList(l)   == [kind |-> "list", list |-> l]

PageUrls == {DirPage, BlogPost}

SeqsUpTo(S, n) == UNION {[1..k -> S] : k \in 0..n}

UrlsArgs == {NullUrls} \cup {UrlList(l) : l \in SeqsUpTo(PageUrls, MaxUrls)}

\* values of other types that a caller can hand over as `urls`
NumberArg(n) == [kind |-> "number", n |-> n]
StringArg(n) == [kind |-> "string", n |-> n, length |-> 1]    \* a one-digit numeral

\* `urls || ...` : null and 0 are falsy; every array (also the empty one),
\* every other number and every non-empty string are truthy
Truthy(u) == u.kind # "null" /\ u # NumberArg(0)

\* x.length, -1 standing for undefined (numbers have no length)
LengthOf(u) ==
    IF u.kind = "list" THEN Len(u.list)
    ELSE IF u.kind = "string" THEN u.length
    ELSE -1

\* the elements the for loop of crawlSite runs over: `i < undefined` is false
Elements(u) == IF u.kind = "list" THEN u.list ELSE <<>>

\* the TypeError of `batch.map` when batch is a string
NotAFunction == "batch.map is not a function"

(***************************************************************************)
(* The link filter of discoverUrls / countPages                            *)
(***************************************************************************)
excludeExtensions == {".pdf", ".jpg", ".jpeg", ".png", ".gif", ".svg", ".ico",
                      ".css", ".js", ".xml", ".txt", ".zip", ".doc", ".docx",
                      ".xls", ".xlsx", ".ppt", ".pptx"}

\* normalizedUrl.toLowerCase().endsWith(ext) for some ext; a URL that ends
\* in '/' ends in no extension
HasExcludedExtension(n) ==
    /\ ~n.slash
    /\ n.path # <<>>
    /\ n.path[Len(n.path)].ext \in excludeExtensions

\* the words a segment name starts with (every name starts with itself)
Prefixes(name) ==
    {name} \cup (IF name = "contacts" THEN {"contact"}
                 ELSE IF name = "feedback" THEN {"feed"}
                 ELSE IF name = "trackbacks" THEN {"trackback"}
                 ELSE {})

\* segment k of n is followed by a '/'
FollowedBySlash(n, k) == k < Len(n.path) \/ n.slash

\* the text '/word/' occurs in the path
HasSlashWord(n, words) ==
    \E k \in 1..Len(n.path) :
        /\ n.path[k].ext = ""
        /\ n.path[k].name \in words
        /\ FollowedBySlash(n, k)

\* the text '/word' occurs in the path
HasPrefixWord(n, words) ==
    \E k \in 1..Len(n.path) : Prefixes(n.path[k].name) \cap words # {}

\* excludePatterns.some(pattern => normalizedUrl.toLowerCase().includes(pattern))
HasExcludedPattern(n) ==
    \/ HasSlashWord(n, {"wp-admin", "admin", "api", ".well-known"})
    \/ HasPrefixWord(n, {"login", "logout", "search", "contact", "mailto:",
                         "tel:", "feed", "rss"})
    \/ n.host \in {"admin", "api"}           \* 'https://admin/' contains '/admin/'

\* segments that consist of digits only, by their number of digits
Digits(name) ==
    IF name \in {"2", "3"} THEN 1
    ELSE IF name \in {"12"} THEN 2
    ELSE IF name \in {"2023"} THEN 4
    ELSE 0

\* wpExcludePatterns.some(pattern => pattern.test(path))
HasWpExcludedPattern(n) ==
    \/ \E k \in 1..(Len(n.path) - 1) :            \* /page/N, /paged/N
          /\ n.path[k].ext = "" /\ n.path[k].name \in {"page", "paged"}
          /\ Digits(n.path[k + 1].name) > 0
    \/ HasSlashWord(n, {"category", "tag", "author", "attachment", "embed",
                        "wp-content", "wp-includes"})
    \/ \E k \in 1..(Len(n.path) - 1) :            \* /YYYY/MM/
          /\ n.path[k].ext = "" /\ Digits(n.path[k].name) = 4
          /\ n.path[k + 1].ext = "" /\ Digits(n.path[k + 1].name) = 2
          /\ FollowedBySlash(n, k + 1)
    \/ /\ n.slash /\ n.path # <<>>                \* /YYYY/ at the end
       /\ n.path[Len(n.path)].ext = "" /\ Digits(n.path[Len(n.path)].name) = 4
    \/ HasPrefixWord(n, {"trackback", "wp-sitemap"})
    \/ \E k \in 1..Len(n.path) :
          n.path[k].name = "xmlrpc" /\ n.path[k].ext = ".php"

\* percent-encoded octets of a segment name: how many, and whether one of
\* them matches %e_, %8_ or %9_
EncodedOctets(name) ==
    IF name = "%e3%81%82" THEN [count |-> 3, japanese |-> TRUE]
    ELSE IF name = "a%20b" THEN [count |-> 1, japanese |-> FALSE]
    ELSE IF name = "a%20b%20c%20d" THEN [count |-> 3, japanese |-> FALSE]
    ELSE [count |-> 0, japanese |-> FALSE]

RECURSIVE SumOctets(_)
SumOctets(path) ==
    IF path = <<>> THEN 0
    ELSE EncodedOctets(Head(path).name).count + SumOctets(Tail(path))

\* if (hasEncodedChars) { if (hasJapaneseEncoding) continue;
\*                        if (encodedMatches.length > 2) continue; }
HasExcludedEncoding(n) ==
    \/ \E k \in 1..Len(n.path) : EncodedOctets(n.path[k].name).japanese
    \/ SumOctets(n.path) > 2

\* searchParams.has('page') || ... || searchParams.has('author')
HasPagingParam(link) ==
    link.query \cap {"page", "paged", "p", "cat", "tag", "author"} # {}

FinalUrlAnyHost(link, startDomain) ==
    LET normalizedUrl == OriginPlusPathname(link)
    IN  IF ~IsParseable(link) THEN NotAUrl
        ELSE IF HasExcludedExtension(normalizedUrl) THEN NotAUrl
        ELSE IF HasExcludedPattern(normalizedUrl) THEN NotAUrl
        ELSE IF HasExcludedEncoding(normalizedUrl) THEN NotAUrl
        ELSE IF HasWpExcludedPattern(normalizedUrl) THEN NotAUrl
        ELSE IF HasPagingParam(link) THEN NotAUrl
        ELSE StripTrailingSlash(normalizedUrl)

\* The body of `for (const link of links)`: the URL to enqueue for one href,
\* or NotAUrl when the href is dropped.
FinalUrl(link, startDomain) ==
    LET normalizedUrl == OriginPlusPathname(link)
    IN  IF ~IsParseable(link) THEN NotAUrl
        ELSE IF link.host # startDomain THEN NotAUrl
        ELSE IF HasExcludedExtension(normalizedUrl) THEN NotAUrl
        ELSE IF HasExcludedPattern(normalizedUrl) THEN NotAUrl
        ELSE IF HasExcludedEncoding(normalizedUrl) THEN NotAUrl
        ELSE IF HasWpExcludedPattern(normalizedUrl) THEN NotAUrl
        ELSE IF HasPagingParam(link) THEN NotAUrl
        ELSE StripTrailingSlash(normalizedUrl)

ShouldEnqueueAnew(f, vis, queue) == f # NotAUrl

\* if (!visited.has(finalUrl) && !toVisit.includes(finalUrl)), for a link that
\* came through the filter
ShouldEnqueue(f, vis, queue) ==
    f # NotAUrl /\ f \notin vis /\ ~(\E k \in 1..Len(queue) : queue[k] = f)

\* toVisit after the for loop over the links of one page
RECURSIVE Enqueue(_, _, _, _)
Enqueue(links, startDomain, vis, queue) ==
    IF links = <<>> THEN queue
    ELSE LET f == FinalUrl(Head(links), startDomain)
         IN  Enqueue(Tail(links), startDomain, vis,
                     IF ShouldEnqueue(f, vis, queue)
                     THEN Append(queue, f) ELSE queue)

CountFinalUrlKeepsPaging(link, startDomain) ==
    LET normalizedUrl == OriginPlusPathname(link)
    IN  IF ~IsParseable(link) THEN NotAUrl
        ELSE IF link.host # startDomain THEN NotAUrl
        ELSE IF HasExcludedExtension(normalizedUrl) THEN NotAUrl
        ELSE IF HasExcludedPattern(normalizedUrl) THEN NotAUrl
        ELSE IF HasExcludedEncoding(normalizedUrl) THEN NotAUrl
        ELSE IF HasWpExcludedPattern(normalizedUrl) THEN NotAUrl
        ELSE StripTrailingSlash(normalizedUrl)

\* The same loop body in countPages.
CountFinalUrl(link, startDomain) ==
    LET normalizedUrl == OriginPlusPathname(link)
    IN  IF ~IsParseable(link) THEN NotAUrl
        ELSE IF link.host # startDomain THEN NotAUrl
        ELSE IF HasExcludedExtension(normalizedUrl) THEN NotAUrl
        ELSE IF HasExcludedPattern(normalizedUrl) THEN NotAUrl
        ELSE IF HasExcludedEncoding(normalizedUrl) THEN NotAUrl
        ELSE IF HasWpExcludedPattern(normalizedUrl) THEN NotAUrl
        ELSE IF HasPagingParam(link) THEN NotAUrl
        ELSE StripTrailingSlash(normalizedUrl)

\* toVisit after the for loop of countPages over the links of one page
RECURSIVE CountEnqueue(_, _, _, _)
CountEnqueue(links, startDomain, vis, queue) ==
    IF links = <<>> THEN queue
    ELSE LET f == CountFinalUrl(Head(links), startDomain)
         IN  CountEnqueue(Tail(links), startDomain, vis,
                          IF f # NotAUrl /\ f \notin vis
                             /\ ~(\E k \in 1..Len(queue) : queue[k] = f)
                          THEN Append(queue, f) ELSE queue)

(***************************************************************************)
(* collectSiteLinks                                                        *)
(***************************************************************************)
siteLinkExtensions == {".pdf", ".jpg", ".jpeg", ".png", ".gif", ".svg", ".ico",
                       ".css", ".js", ".xml", ".txt", ".zip"}

MaxSiteLinks == 20

\* the filter without the test of the hostname
SiteLinkUrlAnyHost(link, pageUrl) ==
    LET normalizedUrl == OriginPlusPathname(link)
    IN  IF ~IsParseable(link) THEN NotAUrl
        ELSE IF link = pageUrl THEN NotAUrl
        ELSE IF /\ ~normalizedUrl.slash /\ normalizedUrl.path # <<>>
                /\ normalizedUrl.path[Len(normalizedUrl.path)].ext
                       \in siteLinkExtensions THEN NotAUrl
        ELSE IF HasExcludedPattern(normalizedUrl) THEN NotAUrl
        ELSE IF HasWpExcludedPattern(normalizedUrl) THEN NotAUrl
        ELSE IF HasExcludedEncoding(normalizedUrl) THEN NotAUrl
        ELSE StripTrailingSlash(normalizedUrl)

\* the URL collectSiteLinks keeps for one href, or NotAUrl when it is dropped
SiteLinkUrl(link, pageUrl) ==
    LET normalizedUrl == OriginPlusPathname(link)
    IN  IF ~IsParseable(link) THEN NotAUrl
        ELSE IF link.host # pageUrl.host THEN NotAUrl
        ELSE IF link = pageUrl THEN NotAUrl
        ELSE IF /\ ~normalizedUrl.slash /\ normalizedUrl.path # <<>>
                /\ normalizedUrl.path[Len(normalizedUrl.path)].ext
                       \in siteLinkExtensions THEN NotAUrl
        ELSE IF HasExcludedPattern(normalizedUrl) THEN NotAUrl
        ELSE IF HasWpExcludedPattern(normalizedUrl) THEN NotAUrl
        ELSE IF HasExcludedEncoding(normalizedUrl) THEN NotAUrl
        ELSE StripTrailingSlash(normalizedUrl)

\* the for loop of collectSiteLinks: siteLinks after the remaining links
RECURSIVE SiteLinksLoop(_, _, _)
SiteLinksLoop(links, pageUrl, siteLinks) ==
    IF links = <<>> THEN siteLinks
    ELSE LET f    == SiteLinkUrl(Head(links), pageUrl)
             next == IF f # NotAUrl
                        /\ ~(\E k \in 1..Len(siteLinks) : siteLinks[k] = f)
                     THEN Append(siteLinks, f) ELSE siteLinks
         IN  IF f # NotAUrl /\ Len(next) >= MaxSiteLinks THEN next
             ELSE SiteLinksLoop(Tail(links), pageUrl, next)

collectSiteLinks(pageUrl) == SiteLinksLoop(LinksOf(pageUrl), pageUrl, <<>>)

(***************************************************************************)
(* Outcomes of asynchronous calls                                          *)
(***************************************************************************)
None         == [none |-> TRUE]
Success(v)   == [ok |-> TRUE, value |-> v]
Failure(msg) == [ok |-> FALSE, message |-> msg]

InvalidUrl   == "Invalid URL"
NullLength   == "Cannot read properties of null (reading 'length')"

\* the messages the browser engine rejects with; an Error may carry no message
ErrorMessages == {"Protocol error", ""}

\* the scores the audit engine reports for the pages of the site
AuditScores == [performance |-> 90, accessibility |-> 80,
                bestpractices |-> 70, seo |-> 60]

\* what runLighthouse returns when the audit succeeds: the scores and the
\* accessibility audits with a score below 1
AuditResult(u) == [scores |-> AuditScores, accessibility |-> <<"color-contrast">>]

\* the violations axe-core finds
AxeViolations(u) == <<"image-alt">>

\* the console errors the page raises while it loads
ConsoleEvents(u) == <<"console-error">>

\* what analyzeDom returns; g is global.currentUrl when the image sources are
\* resolved
DomAnalysis(u, g) ==
    [images |-> << [type |-> "missing-alt",
                    src  |-> AbsoluteSrc(ImgOf(u), g)] >>]

\* the object checkSinglePage returns
PageResult(u, lhResults, axeResults, domAnalysis, consoleErrors, siteLinks, a) ==
    [url       |-> u,
     scores    |-> lhResults.scores,
     issues    |-> [images        |-> domAnalysis.images,
                    accessibility |-> [lighthouse |-> lhResults.accessibility,
                                       axe        |-> axeResults],
                    consoleErrors |-> consoleErrors],
     siteLinks |-> siteLinks,
     auth      |-> a]

CatchEntryNoFallback(url, err) == [url |-> url, error |-> err.message]

\* .catch(error => ({ url, error: error?.message || 'Unknown error occurred', ... }))
CatchEntry(url, err) ==
    [url   |-> url,
     error |-> IF err.message = "" THEN "Unknown error occurred" ELSE err.message]

\* the value the guarded promise of one page settles with
Guarded(url, outcome) ==
    IF outcome.ok THEN outcome.value ELSE CatchEntry(url, outcome)

(***************************************************************************)
(* Console output                                                          *)
(***************************************************************************)
Undefined == [kind |-> "undefined"]

\* a request body without startUrl, maxPages and auth
NoBody == [startUrl |-> NoUrl, maxPages |-> Undefined, auth |-> NullAuth]

\* JSON.stringify(req.body): the text holds every property of the body, the
\* properties of auth among them
JsonStringify(body) ==
    [startUrl |-> body.startUrl,
     maxPages |-> body.maxPages,
     username |-> body.auth.username,
     password |-> body.auth.password]

\* no serialized body
NoJson == JsonStringify(NoBody)

\* one line of console output: its fixed text and the values interpolated
\* into it (a URL, a number, an error message, a serialized request body)
ConsoleLine(text, u, n, message, json) ==
    [text |-> text, url |-> u, count |-> n, message |-> message, json |-> json]

\* console.log(`Discovered ${urlsToAnalyze.length} pages to analyze`)
DiscoveredLine(n) == ConsoleLine("Discovered pages to analyze", NoUrl, n, "", NoJson)

\* console.log(`Completed ${Math.min(done, length)}/${length} pages`);
\* Math.min(done, undefined) is NaN, shown here as -1
CompletedLine(done, length) ==
    ConsoleLine("Completed pages", NoUrl,
                IF length < 0 THEN -1 ELSE IF done < length THEN done ELSE length,
                "", NoJson)

\* console.warn(`<text> ${url}:`, error.message)
Warn(text, u, message) == ConsoleLine(text, u, 0, message, NoJson)

\* no request is being served
NoRequest == [route |-> "none", method |-> "", origin |-> FALSE, body |-> NoBody]

\* process.env without MAX_PAGES
NoEnv == [MAX_PAGES |-> Undefined]

(***************************************************************************)
(* checkSinglePage as called by crawlSite: one task per page of the batch  *)
(***************************************************************************)
concurrencyFour == 3 + 1

concurrency == 3

NewTask(url) == [url |-> url, st |-> "launching", launched |-> FALSE,
                 closes |-> 0, pending |-> None, out |-> None]

CloseBrowserForgotten(t) == t

\* browser.close()
CloseBrowser(t) == [t EXCEPT !.closes = @ + 1]

\* leaving the try block: the finally clause runs next
ToFinally(t, outcome) == [t EXCEPT !.st = "closing", !.pending = outcome]

InFlight == {k \in DOMAIN tasks : tasks[k].st # "settled"}

\* task k settles in ts while a task before it in the batch is in flight
SettlesBeforeEarlier(k, ts) ==
    /\ ts[k].st = "settled"
    /\ \E j \in 1..(k - 1) : ts[j].st # "settled"

\* await puppeteer.launch(getBrowserConfig())
TaskLaunch(k) ==
    /\ pc = "await" /\ k \in DOMAIN tasks /\ tasks[k].st = "launching"
    /\ \/ /\ tasks' = [tasks EXCEPT ![k].st = "opening", ![k].launched = TRUE]
          /\ launchCount' = launchCount + 1
          /\ UNCHANGED launchFailed
       \/ /\ \E msg \in ErrorMessages :
                tasks' = [tasks EXCEPT ![k].st = "settled",
                                       ![k].out = Failure(msg)]
          /\ launchFailed' = TRUE
          /\ UNCHANGED launchCount
    /\ UNCHANGED <<pc, urlsToAnalyze, i, results, ret, currentUrl>>
    /\ UNCHANGED <<argVars, discVars, pageVars>>
    /\ outOfOrder' = (outOfOrder \/ SettlesBeforeEarlier(k, tasks'))
    /\ UNCHANGED <<log, srvVars, libVars>>

\* await browser.newPage(); await setupAuth(page, auth)
TaskOpenPage(k) ==
    /\ pc = "await" /\ k \in DOMAIN tasks /\ tasks[k].st = "opening"
    /\ \/ tasks' = [tasks EXCEPT ![k].st = "navigating"]
       \/ \E msg \in ErrorMessages :
             tasks' = [tasks EXCEPT ![k] = ToFinally(@, Failure(msg))]
    /\ UNCHANGED <<pc, urlsToAnalyze, i, results, ret, currentUrl,
                   launchCount, launchFailed>>
    /\ UNCHANGED <<argVars, discVars, pageVars>>
    /\ UNCHANGED outOfOrder
    /\ UNCHANGED <<log, srvVars, libVars>>

\* await page.goto(url, { waitUntil: 'networkidle2' })
TaskGoto(k) ==
    /\ pc = "await" /\ k \in DOMAIN tasks /\ tasks[k].st = "navigating"
    /\ \/ tasks' = [tasks EXCEPT ![k].st = "checking"]
       \/ \E msg \in ErrorMessages :
             tasks' = [tasks EXCEPT ![k] = ToFinally(@, Failure(msg))]
    /\ UNCHANGED <<pc, urlsToAnalyze, i, results, ret, currentUrl,
                   launchCount, launchFailed>>
    /\ UNCHANGED <<argVars, discVars, pageVars>>
    /\ UNCHANGED outOfOrder
    /\ UNCHANGED <<log, srvVars, libVars>>

\* await Promise.all([runLighthouse, runAxeCore, analyzeDom, collectConsoleErrors]):
\* either the four resolve, or analyzeDom / collectConsoleErrors rejects;
\* analyzeDom reads global.currentUrl.  Then await collectSiteLinks(page, url),
\* which catches its own errors, and return { url, ..., scores, issues, ... }.
\* (SpecPage follows the sub-checks one by one, with their own failures.)
TaskChecks(k) ==
    /\ pc = "await" /\ k \in DOMAIN tasks /\ tasks[k].st = "checking"
    /\ \/ tasks' = [tasks EXCEPT ![k] =
                       ToFinally(@, Success(PageResult(tasks[k].url,
                           AuditResult(tasks[k].url), AxeViolations(tasks[k].url),
                           DomAnalysis(tasks[k].url, currentUrl),
                           ConsoleEvents(tasks[k].url),
                           collectSiteLinks(tasks[k].url), auth)))]
       \/ \E msg \in ErrorMessages :
             tasks' = [tasks EXCEPT ![k] = ToFinally(@, Failure(msg))]
    /\ UNCHANGED <<pc, urlsToAnalyze, i, results, ret, currentUrl,
                   launchCount, launchFailed>>
    /\ UNCHANGED <<argVars, discVars, pageVars>>
    /\ UNCHANGED outOfOrder
    /\ UNCHANGED <<log, srvVars, libVars>>

\* finally { await browser.close(); }
TaskClose(k) ==
    /\ pc = "await" /\ k \in DOMAIN tasks /\ tasks[k].st = "closing"
    /\ tasks' = [tasks EXCEPT ![k] = [CloseBrowser(@) EXCEPT
                                          !.st = "settled",
                                          !.out = tasks[k].pending]]
    /\ UNCHANGED <<pc, urlsToAnalyze, i, results, ret, currentUrl,
                   launchCount, launchFailed>>
    /\ UNCHANGED <<argVars, discVars, pageVars>>
    /\ outOfOrder' = (outOfOrder \/ SettlesBeforeEarlier(k, tasks'))
    /\ UNCHANGED <<log, srvVars, libVars>>

(***************************************************************************)
(* crawlSite                                                               *)
(***************************************************************************)
\* urlsToAnalyze.slice(i, i + concurrency)
Slice(list, from, to) ==
    SubSeq(list, from + 1, IF to < Len(list) THEN to ELSE Len(list))

BatchResultsReversed(ts) ==
    [k \in DOMAIN ts |-> Guarded(ts[Len(ts) + 1 - k].url, ts[Len(ts) + 1 - k].out)]

\* await Promise.all(batchPromises): the values in the order of the promises
BatchResults(ts) == [k \in DOMAIN ts |-> Guarded(ts[k].url, ts[k].out)]

\* const urlsToAnalyze = urls || await discoverUrls(startUrl, auth);
CrawlCall ==
    /\ op = "crawlSite" /\ pc = "call"
    /\ IF Truthy(urls)
       THEN /\ log' = log \cup {DiscoveredLine(LengthOf(urls))}
            /\ IF urls.kind = "string"
               THEN /\ pc' = "thrown"          \* slice yields a string
                    /\ ret' = Failure(NotAFunction)
                    /\ UNCHANGED urlsToAnalyze
               ELSE /\ urlsToAnalyze' = Elements(urls)
                    /\ pc' = "loop"
                    /\ UNCHANGED ret
            /\ UNCHANGED dpc
       ELSE /\ pc' = "discover"
            /\ dpc' = "launching"
            /\ UNCHANGED <<urlsToAnalyze, ret, log>>
    /\ UNCHANGED <<i, results, tasks, currentUrl, launchCount, launchFailed>>
    /\ UNCHANGED <<dbrowser, dpage, toVisit, visited, discovered, cur, dret, navFailed>>
    /\ UNCHANGED <<argVars, pageVars>>
    /\ UNCHANGED outOfOrder
    /\ UNCHANGED <<srvVars, libVars>>

\* discoverUrls has settled
CrawlDiscovered ==
    /\ op = "crawlSite" /\ pc = "discover" /\ dpc \in {"returned", "thrown"}
    /\ IF dpc = "returned"
       THEN /\ urlsToAnalyze' = dret.value
            /\ log' = log \cup {DiscoveredLine(Len(dret.value))}
            /\ pc' = "loop"
            /\ UNCHANGED ret
       ELSE /\ pc' = "thrown"
            /\ ret' = dret
            /\ UNCHANGED <<urlsToAnalyze, log>>
    /\ UNCHANGED <<i, results, tasks, currentUrl, launchCount, launchFailed>>
    /\ UNCHANGED <<argVars, discVars, pageVars>>
    /\ UNCHANGED outOfOrder
    /\ UNCHANGED <<srvVars, libVars>>

\* the loop test succeeds: batch.map(url => checkSinglePage(url, auth).catch(...)).
\* Every call runs up to its first await, so that each of them has assigned
\* global.currentUrl before any of them continues.
StartBatch ==
    /\ pc = "loop" /\ i < Len(urlsToAnalyze)
    /\ LET batch == Slice(urlsToAnalyze, i, i + concurrency)
       IN  /\ tasks' = [k \in DOMAIN batch |-> NewTask(batch[k])]
           /\ currentUrl' = batch[Len(batch)]
    /\ pc' = "await"
    /\ UNCHANGED <<urlsToAnalyze, i, results, ret, launchCount, launchFailed>>
    /\ UNCHANGED <<argVars, discVars, pageVars>>
    /\ UNCHANGED outOfOrder
    /\ UNCHANGED <<log, srvVars, libVars>>

\* await Promise.all(batchPromises) resumes; results.push(...batchResults);
\* console.log(`... ${Math.min(i + concurrency, urls.length)}/${urls.length} ...`)
EndBatch ==
    /\ pc = "await" /\ InFlight = {}
    /\ results' = results \o BatchResults(tasks)
    /\ tasks' = <<>>
    /\ IF urls.kind = "null"
       THEN /\ pc' = "thrown"
            /\ ret' = Failure(NullLength)
            /\ UNCHANGED <<i, log>>
       ELSE /\ pc' = "loop"
            /\ i' = i + concurrency
            /\ log' = log \cup {CompletedLine(i + concurrency, LengthOf(urls))}
            /\ UNCHANGED ret
    /\ UNCHANGED <<urlsToAnalyze, currentUrl, launchCount, launchFailed>>
    /\ UNCHANGED <<argVars, discVars, pageVars>>
    /\ UNCHANGED outOfOrder
    /\ UNCHANGED <<srvVars, libVars>>

\* the loop test fails: return { startUrl, totalPages, timestamp, results, auth }
CrawlReturn ==
    /\ pc = "loop" /\ ~(i < Len(urlsToAnalyze))
    /\ pc' = "returned"
    /\ ret' = Success([startUrl   |-> startUrl,
                       totalPages |-> Len(results),
                       results    |-> results,
                       auth       |-> auth])
    /\ UNCHANGED <<urlsToAnalyze, i, results, tasks, currentUrl,
                   launchCount, launchFailed>>
    /\ UNCHANGED <<argVars, discVars, pageVars>>
    /\ UNCHANGED outOfOrder
    /\ UNCHANGED <<log, srvVars, libVars>>

(***************************************************************************)
(* countPages (called on its own)                                          *)
(***************************************************************************)
CountCall ==
    /\ op = "countPages" /\ pc = "call"
    /\ pc' = "discover"
    /\ dpc' = "launching"
    /\ UNCHANGED <<urlsToAnalyze, i, results, tasks, ret, currentUrl,
                   launchCount, launchFailed>>
    /\ UNCHANGED <<dbrowser, dpage, toVisit, visited, discovered, cur, dret, navFailed>>
    /\ UNCHANGED <<argVars, pageVars>>
    /\ UNCHANGED outOfOrder
    /\ UNCHANGED <<log, srvVars, libVars>>

\* return { totalPages: discovered.length, urls: discovered }
CountSettled ==
    /\ op = "countPages" /\ pc = "discover" /\ dpc \in {"returned", "thrown"}
    /\ IF dpc = "returned"
       THEN /\ pc' = "returned"
            /\ ret' = Success([totalPages |-> Len(dret.value), urls |-> dret.value])
       ELSE /\ pc' = "thrown"
            /\ ret' = dret
    /\ UNCHANGED <<urlsToAnalyze, i, results, tasks, currentUrl,
                   launchCount, launchFailed>>
    /\ UNCHANGED <<argVars, discVars, pageVars>>
    /\ UNCHANGED outOfOrder
    /\ UNCHANGED <<log, srvVars, libVars>>

(***************************************************************************)
(* discoverUrls / countPages: the traversal                                *)
(***************************************************************************)
NoPage == [open |-> FALSE, creds |-> FALSE, navigated |-> FALSE]

\* the links read with only the first of them kept
HttpLinksFirstOnly(u) ==
    SubSeq(SelectSeq(LinksOf(u), LAMBDA l : l.scheme \in {"http", "https"}), 1, 1)

\* .filter(href => href.startsWith('http'))
HttpLinks(u) == SelectSeq(LinksOf(u), LAMBDA l : l.scheme \in {"http", "https"})

\* browser.close() of the traversal's browser
CloseDiscBrowser(b) == [b EXCEPT !.closes = @ + 1]

\* await puppeteer.launch(...); then, inside try: new URL(startUrl),
\* finalStartUrl, toVisit = [finalStartUrl]
DiscLaunch ==
    /\ dpc = "launching"
    /\ \/ /\ dbrowser' = [launched |-> TRUE, closes |-> 0]
          /\ IF IsParseable(startUrl)
             THEN /\ toVisit' = <<StripTrailingSlash(OriginPlusPathname(startUrl))>>
                  /\ dpc' = "loop"
                  /\ UNCHANGED dret
             ELSE /\ dpc' = "closing"
                  /\ dret' = Failure(InvalidUrl)
                  /\ UNCHANGED toVisit
          /\ UNCHANGED launchFailed
       \/ /\ dpc' = "thrown"
          /\ \E msg \in ErrorMessages : dret' = Failure(msg)
          /\ launchFailed' = TRUE
          /\ UNCHANGED <<dbrowser, toVisit>>
    /\ UNCHANGED <<pc, urlsToAnalyze, i, results, tasks, ret, currentUrl, launchCount>>
    /\ UNCHANGED <<dpage, visited, discovered, cur, navFailed>>
    /\ UNCHANGED <<argVars, pageVars>>
    /\ UNCHANGED outOfOrder
    /\ UNCHANGED <<log, srvVars, libVars>>

\* while (toVisit.length > 0) { currentUrl = toVisit.shift();
\*   if (visited.has(currentUrl)) continue; visited.add; discovered.push; ...
DiscDequeue ==
    /\ dpc = "loop" /\ toVisit # <<>>
    /\ cur' = Head(toVisit)
    /\ toVisit' = Tail(toVisit)
    /\ IF Head(toVisit) \in visited
       THEN UNCHANGED <<visited, discovered, dpc>>
       ELSE /\ visited' = visited \cup {Head(toVisit)}
            /\ discovered' = Append(discovered, Head(toVisit))
            /\ dpc' = "opening"
    /\ UNCHANGED <<dbrowser, dpage, dret, navFailed>>
    /\ UNCHANGED <<argVars, crawlVars, pageVars>>
    /\ UNCHANGED <<log, srvVars, libVars>>

\* the text of the warning of the catch clause around one URL
FailedText == IF op = "countPages" THEN "Failed to process" ELSE "Failed to crawl"

DiscCatchFatal ==
    /\ log' = log \cup {Warn(FailedText, cur, "Protocol error")}
    /\ navFailed' = navFailed \cup {cur}
    /\ dpc' = "thrown"

\* catch (error) { console.warn(`Failed to crawl ${currentUrl}:`, error.message); }
\* the URL contributes no links and the while loop goes on
DiscCatch ==
    /\ log' = log \cup {Warn(FailedText, cur, "Protocol error")}
    /\ navFailed' = navFailed \cup {cur}
    /\ dpc' = "loop"

\* await browser.newPage(); await setupAuth(page, auth)
DiscOpenPage ==
    /\ dpc = "opening"
    /\ \/ /\ dpage' = [open |-> TRUE, creds |-> HasCredentials(auth),
                       navigated |-> FALSE]
          /\ dpc' = "navigating"
          /\ UNCHANGED <<navFailed, log>>
       \/ /\ DiscCatch
          /\ UNCHANGED dpage
    /\ UNCHANGED <<dbrowser, toVisit, visited, discovered, cur, dret>>
    /\ UNCHANGED <<argVars, crawlVars, pageVars>>
    /\ UNCHANGED <<srvVars, libVars>>

\* await page.goto(currentUrl, { waitUntil: 'networkidle2', timeout: 30000 })
DiscGoto ==
    /\ dpc = "navigating"
    /\ \/ /\ dpage' = [dpage EXCEPT !.navigated = TRUE]
          /\ dpc' = "extracting"
          /\ UNCHANGED <<navFailed, log>>
       \/ /\ DiscCatch
          /\ UNCHANGED dpage
    /\ UNCHANGED <<dbrowser, toVisit, visited, discovered, cur, dret>>
    /\ UNCHANGED <<argVars, crawlVars, pageVars>>
    /\ UNCHANGED <<srvVars, libVars>>

\* links = await page.evaluate(...); await page.close(); for (const link of links) ...
DiscExtract ==
    /\ dpc = "extracting"
    /\ \/ /\ dpage' = [dpage EXCEPT !.open = FALSE]
          /\ toVisit' = IF op = "countPages"
                        THEN CountEnqueue(HttpLinks(cur), startUrl.host, visited, toVisit)
                        ELSE Enqueue(HttpLinks(cur), startUrl.host, visited, toVisit)
          /\ dpc' = "loop"
          /\ UNCHANGED <<navFailed, log>>
       \/ /\ DiscCatch
          /\ UNCHANGED <<dpage, toVisit>>
    /\ UNCHANGED <<dbrowser, visited, discovered, cur, dret>>
    /\ UNCHANGED <<argVars, crawlVars, pageVars>>
    /\ UNCHANGED <<srvVars, libVars>>

\* the while loop ends: return discovered (the finally clause runs next)
DiscReturn ==
    /\ dpc = "loop" /\ toVisit = <<>>
    /\ dpc' = "closing"
    /\ dret' = Success(discovered)
    /\ UNCHANGED <<dbrowser, dpage, toVisit, visited, discovered, cur, navFailed>>
    /\ UNCHANGED <<argVars, crawlVars, pageVars>>
    /\ UNCHANGED <<log, srvVars, libVars>>

\* finally { await browser.close(); }
DiscClose ==
    /\ dpc = "closing"
    /\ dbrowser' = CloseDiscBrowser(dbrowser)
    /\ dpc' = IF dret.ok THEN "returned" ELSE "thrown"
    /\ UNCHANGED <<dpage, toVisit, visited, discovered, cur, dret, navFailed>>
    /\ UNCHANGED <<argVars, crawlVars, pageVars>>
    /\ UNCHANGED <<log, srvVars, libVars>>

(***************************************************************************)
(* checkSinglePage with its sub-checks: state                              *)
(***************************************************************************)
\* a page of the browser: nav is "none", "started", "done" or "failed"
ClosedPage == [open |-> FALSE, creds |-> FALSE, nav |-> "none"]

NoPages  == [main |-> ClosedPage, errorPage |-> ClosedPage, fallback |-> ClosedPage]
IdleSubs == [lighthouse |-> "idle", axe |-> "idle", dom |-> "idle", console |-> "idle"]
NoVals   == [lighthouse |-> None, axe |-> None, dom |-> None, console |-> None]

(***************************************************************************)
(* Specification: one top-level call of crawlSite or countPages            *)
(***************************************************************************)
StartUrls == {Root, [DirPage EXCEPT !.slash = TRUE], NotAUrl}

Auths == {NullAuth, Creds}

Init ==
    /\ op \in {"crawlSite", "countPages"}
    /\ urls \in IF op = "crawlSite" THEN UrlsArgs ELSE {NullUrls}
    \* with a URL list, crawlSite only copies startUrl into its result
    /\ startUrl \in IF Truthy(urls) THEN {Root} ELSE StartUrls
    \* with a URL list, auth is only handed on to checkSinglePage and copied
    \* into the results
    /\ auth \in IF Truthy(urls) THEN {Creds} ELSE Auths
    /\ pc = "call"
    /\ urlsToAnalyze = <<>>
    /\ i = 0
    /\ results = <<>>
    /\ tasks = <<>>
    /\ ret = None
    /\ currentUrl = NoUrl
    /\ launchCount = 0
    /\ launchFailed = FALSE
    /\ outOfOrder = FALSE
    /\ dpc = "idle"
    /\ dbrowser = [launched |-> FALSE, closes |-> 0]
    /\ dpage = NoPage
    /\ toVisit = <<>>
    /\ visited = {}
    /\ discovered = <<>>
    /\ cur = NoUrl
    /\ dret = None
    /\ purl = NoUrl
    /\ checkA11y = TRUE
    /\ ppc = "idle"
    /\ pbrowser = [launched |-> FALSE, closes |-> 0]
    /\ pages = NoPages
    /\ sub = IdleSubs
    /\ val = NoVals
    /\ failed = {}
    /\ ppending = None
    /\ pret = None
    /\ navFailed = {}
    /\ log = {}
    /\ req = NoRequest
    /\ env = NoEnv
    /\ res = None
    /\ spc = "idle"
    /\ callee = "none"
    /\ args = <<>>
    /\ result = None

Next ==
    \/ CrawlCall
    \/ CrawlDiscovered
    \/ StartBatch
    \/ \E k \in DOMAIN tasks : TaskLaunch(k)
    \/ \E k \in DOMAIN tasks : TaskOpenPage(k)
    \/ \E k \in DOMAIN tasks : TaskGoto(k)
    \/ \E k \in DOMAIN tasks : TaskChecks(k)
    \/ \E k \in DOMAIN tasks : TaskClose(k)
    \/ EndBatch
    \/ CrawlReturn
    \/ CountCall
    \/ CountSettled
    \/ DiscLaunch
    \/ DiscDequeue
    \/ DiscOpenPage
    \/ DiscGoto
    \/ DiscExtract
    \/ DiscReturn
    \/ DiscClose

Spec == Init /\ [][Next]_vars

TypeOK ==
    /\ pc \in {"call", "discover", "loop", "await", "returned", "thrown"}
    /\ dpc \in {"idle", "launching", "loop", "opening", "navigating",
                "extracting", "closing", "returned", "thrown"}
    /\ i \in Nat
    /\ launchCount \in Nat

(***************************************************************************)
(* checkSinglePage with its sub-checks (SpecPage)                          *)
(***************************************************************************)
\* operations on a browser that has been closed reject
BrowserAlive == pbrowser.closes = 0

\* the snapshot page.evaluate() takes in calculateBasicScores
Metrics(u) ==
    [hasTitle |-> TRUE, hasDescription |-> (u = DirPage), hasH1 |-> (u # BlogPost),
     imagesWithoutAlt |-> 1, totalImages |-> 1,
     resourceCount |-> IF u = DirPage THEN 62 ELSE 12]

\* Date.now() - start, in ms
LoadTimes == {120, 6000}

Max(a, b) == IF a > b THEN a ELSE b

\* the scores with the performance score not kept at 0 or above
BasicScoresNoFloorAtZero(loadTime, metrics) ==
    [performance   |-> 100 - (loadTime \div 50),
     accessibility |-> Max(0, 100 - (metrics.imagesWithoutAlt * 10)),
     bestpractices |-> Max(0, 100 - Max(0, metrics.resourceCount - 50)),
     seo           |-> (IF metrics.hasTitle THEN 40 ELSE 0)
                       + (IF metrics.hasDescription THEN 40 ELSE 0)
                       + (IF metrics.hasH1 THEN 20 ELSE 0)]

\* the scores calculateBasicScores derives
BasicScores(loadTime, metrics) ==
    [performance   |-> Max(0, 100 - (loadTime \div 50)),
     accessibility |-> Max(0, 100 - (metrics.imagesWithoutAlt * 10)),
     bestpractices |-> Max(0, 100 - Max(0, metrics.resourceCount - 50)),
     seo           |-> (IF metrics.hasTitle THEN 40 ELSE 0)
                       + (IF metrics.hasDescription THEN 40 ELSE 0)
                       + (IF metrics.hasH1 THEN 20 ELSE 0)]

\* the catch clause of calculateBasicScores
ZeroScores == [scores |-> [performance |-> 0, accessibility |-> 0,
                           bestpractices |-> 0, seo |-> 0],
               accessibility |-> <<>>]

\* global.currentUrl = url; const browser = await puppeteer.launch(...)
PageCall ==
    /\ ppc = "call"
    /\ currentUrl' = purl
    /\ ppc' = "launching"
    /\ UNCHANGED <<purl, checkA11y, pbrowser, pages, sub, val, failed, ppending, pret>>
    /\ UNCHANGED <<pc, urlsToAnalyze, i, results, tasks, ret, launchCount,
                   launchFailed, outOfOrder>>
    /\ UNCHANGED <<argVars, discVars>>
    /\ UNCHANGED <<log, srvVars, libVars>>

\* puppeteer.launch() settles
PageLaunch ==
    /\ ppc = "launching"
    /\ \/ /\ pbrowser' = [launched |-> TRUE, closes |-> 0]
          /\ ppc' = "opening"
          /\ UNCHANGED pret
       \/ /\ \E msg \in ErrorMessages : pret' = Failure(msg)
          /\ ppc' = "thrown"
          /\ UNCHANGED pbrowser
    /\ UNCHANGED <<purl, checkA11y, pages, sub, val, failed, ppending>>
    /\ UNCHANGED <<argVars, crawlVars, discVars>>
    /\ UNCHANGED <<log, srvVars, libVars>>

\* await browser.newPage(); await setupAuth(page, auth); page.goto(url) starts
PageOpen ==
    /\ ppc = "opening"
    /\ \/ /\ pages' = [pages EXCEPT !.main = [open  |-> TRUE,
                                              creds |-> HasCredentials(auth),
                                              nav   |-> "started"]]
          /\ ppc' = "navigating"
          /\ UNCHANGED ppending
       \/ /\ \E msg \in ErrorMessages : ppending' = Failure(msg)
          /\ ppc' = "closing"
          /\ UNCHANGED pages
    /\ UNCHANGED <<purl, checkA11y, pbrowser, sub, val, failed, pret>>
    /\ UNCHANGED <<argVars, crawlVars, discVars>>
    /\ UNCHANGED <<log, srvVars, libVars>>

\* await page.goto(url) settles.  On success the four sub-checks are called in
\* turn and each runs up to its first await:
\*   runLighthouse         - lighthouse(url, ...), or, when the browser's
\*                           WebSocket endpoint or port is unusable,
\*                           calculateBasicScores: browser.newPage()
\*   runAxeCore            - returns [] if CHECK_A11Y is 'false', else analyze()
\*   analyzeDom            - page.content()
\*   collectConsoleErrors  - page.browser().newPage()
PageGoto ==
    /\ ppc = "navigating"
    /\ \/ /\ pages' = [pages EXCEPT !.main.nav = "done"]
          /\ ppc' = "checks"
          /\ \E endpointUsable \in BOOLEAN :
                /\ sub' = [lighthouse |-> IF endpointUsable THEN "audit" ELSE "fbOpen",
                           axe        |-> IF checkA11y THEN "analyze" ELSE "done",
                           dom        |-> "content",
                           console    |-> "newPage"]
                /\ failed' = IF endpointUsable THEN failed
                             ELSE failed \cup {"lighthouse"}
          /\ val' = [val EXCEPT !.axe = IF checkA11y THEN None ELSE <<>>]
          /\ UNCHANGED ppending
       \/ /\ pages' = [pages EXCEPT !.main.nav = "failed"]
          /\ \E msg \in ErrorMessages : ppending' = Failure(msg)
          /\ ppc' = "closing"
          /\ UNCHANGED <<sub, val, failed>>
    /\ UNCHANGED <<purl, checkA11y, pbrowser, pret>>
    /\ UNCHANGED <<argVars, crawlVars, discVars>>
    /\ UNCHANGED <<log, srvVars, libVars>>

\* runLighthouse: await lighthouse(...) settles; a rejection is caught and
\* calculateBasicScores is called
LhAudit ==
    /\ sub.lighthouse = "audit"
    /\ \/ /\ BrowserAlive
          /\ sub' = [sub EXCEPT !.lighthouse = "done"]
          /\ val' = [val EXCEPT !.lighthouse = AuditResult(purl)]
          /\ UNCHANGED failed
       \/ /\ sub' = [sub EXCEPT !.lighthouse = "fbOpen"]
          /\ failed' = failed \cup {"lighthouse"}
          /\ UNCHANGED val
    /\ UNCHANGED <<purl, checkA11y, ppc, pbrowser, pages, ppending, pret>>
    /\ UNCHANGED <<argVars, crawlVars, discVars>>
    /\ UNCHANGED <<log, srvVars, libVars>>

\* calculateBasicScores without its catch clause
LhFallbackOpenUncaught ==
    /\ sub.lighthouse = "fbOpen"
    /\ \/ /\ BrowserAlive
          /\ pages' = [pages EXCEPT !.fallback = [open |-> TRUE, creds |-> FALSE,
                                                  nav |-> "started"]]
          /\ sub' = [sub EXCEPT !.lighthouse = "fbGoto"]
          /\ UNCHANGED val
       \/ /\ sub' = [sub EXCEPT !.lighthouse = "failed"]
          /\ val' = [val EXCEPT !.lighthouse = Failure("Protocol error")]
          /\ UNCHANGED pages
    /\ UNCHANGED <<purl, checkA11y, ppc, pbrowser, failed, ppending, pret>>
    /\ UNCHANGED <<argVars, crawlVars, discVars>>
    /\ UNCHANGED <<log, srvVars, libVars>>

\* calculateBasicScores: await browser.newPage() settles; page.goto(url) starts
LhFallbackOpen ==
    /\ sub.lighthouse = "fbOpen"
    /\ \/ /\ BrowserAlive
          /\ pages' = [pages EXCEPT !.fallback = [open |-> TRUE, creds |-> FALSE,
                                                  nav |-> "started"]]
          /\ sub' = [sub EXCEPT !.lighthouse = "fbGoto"]
          /\ UNCHANGED val
       \/ /\ sub' = [sub EXCEPT !.lighthouse = "done"]
          /\ val' = [val EXCEPT !.lighthouse = ZeroScores]
          /\ UNCHANGED pages
    /\ UNCHANGED <<purl, checkA11y, ppc, pbrowser, failed, ppending, pret>>
    /\ UNCHANGED <<argVars, crawlVars, discVars>>
    /\ UNCHANGED <<log, srvVars, libVars>>

\* calculateBasicScores: await page.goto(url) settles; loadTime is measured
LhFallbackGoto ==
    /\ sub.lighthouse = "fbGoto"
    /\ \/ /\ BrowserAlive
          /\ pages' = [pages EXCEPT !.fallback.nav = "done"]
          /\ sub' = [sub EXCEPT !.lighthouse = "fbEval"]
          /\ \E loadTime \in LoadTimes :
                val' = [val EXCEPT !.lighthouse = [loadTime |-> loadTime]]
       \/ /\ pages' = [pages EXCEPT !.fallback.nav = "failed"]
          /\ sub' = [sub EXCEPT !.lighthouse = "done"]
          /\ val' = [val EXCEPT !.lighthouse = ZeroScores]
    /\ UNCHANGED <<purl, checkA11y, ppc, pbrowser, failed, ppending, pret>>
    /\ UNCHANGED <<argVars, crawlVars, discVars>>
    /\ UNCHANGED <<log, srvVars, libVars>>

\* calculateBasicScores: await page.evaluate(...); await page.close(); the
\* scores are computed
LhFallbackEval ==
    /\ sub.lighthouse = "fbEval"
    /\ \/ /\ BrowserAlive
          /\ pages' = [pages EXCEPT !.fallback.open = FALSE]
          /\ val' = [val EXCEPT !.lighthouse =
                        [scores |-> BasicScores(val.lighthouse.loadTime, Metrics(purl)),
                         accessibility |-> <<>>]]
       \/ /\ val' = [val EXCEPT !.lighthouse = ZeroScores]
          /\ UNCHANGED pages
    /\ sub' = [sub EXCEPT !.lighthouse = "done"]
    /\ UNCHANGED <<purl, checkA11y, ppc, pbrowser, failed, ppending, pret>>
    /\ UNCHANGED <<argVars, crawlVars, discVars>>
    /\ UNCHANGED <<log, srvVars, libVars>>

\* runAxeCore: await new AxePuppeteer(page)...analyze() settles; a rejection
\* is caught and [] is returned
AxeAnalyze ==
    /\ sub.axe = "analyze"
    /\ \/ /\ BrowserAlive
          /\ val' = [val EXCEPT !.axe = AxeViolations(purl)]
          /\ UNCHANGED failed
       \/ /\ val' = [val EXCEPT !.axe = <<>>]
          /\ failed' = failed \cup {"axe"}
    /\ sub' = [sub EXCEPT !.axe = "done"]
    /\ UNCHANGED <<purl, checkA11y, ppc, pbrowser, pages, ppending, pret>>
    /\ UNCHANGED <<argVars, crawlVars, discVars>>
    /\ UNCHANGED <<log, srvVars, libVars>>

\* analyzeDom: await page.content() settles; nothing catches a rejection
DomContent ==
    /\ sub.dom = "content"
    /\ \/ /\ BrowserAlive
          /\ sub' = [sub EXCEPT !.dom = "done"]
          /\ val' = [val EXCEPT !.dom = DomAnalysis(purl, currentUrl)]
          /\ UNCHANGED failed
       \/ /\ sub' = [sub EXCEPT !.dom = "failed"]
          /\ val' = [val EXCEPT !.dom = Failure("Protocol error")]
          /\ failed' = failed \cup {"dom"}
    /\ UNCHANGED <<purl, checkA11y, ppc, pbrowser, pages, ppending, pret>>
    /\ UNCHANGED <<argVars, crawlVars, discVars>>
    /\ UNCHANGED <<log, srvVars, libVars>>

\* collectConsoleErrors: await page.browser().newPage() settles (outside the
\* try block); the listeners are attached and errorPage.goto(page.url()) starts
ConsoleNewPage ==
    /\ sub.console = "newPage"
    /\ \/ /\ BrowserAlive
          /\ pages' = [pages EXCEPT !.errorPage = [open |-> TRUE, creds |-> FALSE,
                                                   nav |-> "started"]]
          /\ sub' = [sub EXCEPT !.console = "goto"]
          /\ UNCHANGED <<val, failed>>
       \/ /\ sub' = [sub EXCEPT !.console = "failed"]
          /\ val' = [val EXCEPT !.console = Failure("Protocol error")]
          /\ failed' = failed \cup {"console"}
          /\ UNCHANGED pages
    /\ UNCHANGED <<purl, checkA11y, ppc, pbrowser, ppending, pret>>
    /\ UNCHANGED <<argVars, crawlVars, discVars>>
    /\ UNCHANGED <<log, srvVars, libVars>>

\* collectConsoleErrors: await errorPage.goto(...) settles; a rejection is
\* caught and the finally clause runs
ConsoleGoto ==
    /\ sub.console = "goto"
    /\ \/ /\ BrowserAlive
          /\ pages' = [pages EXCEPT !.errorPage.nav = "done"]
          /\ sub' = [sub EXCEPT !.console = "wait"]
          /\ UNCHANGED failed
       \/ /\ pages' = [pages EXCEPT !.errorPage.nav = "failed"]
          /\ sub' = [sub EXCEPT !.console = "close"]
          /\ failed' = failed \cup {"console"}
    /\ UNCHANGED <<purl, checkA11y, ppc, pbrowser, val, ppending, pret>>
    /\ UNCHANGED <<argVars, crawlVars, discVars>>
    /\ UNCHANGED <<log, srvVars, libVars>>

\* collectConsoleErrors: the 2000 ms timer fires
ConsoleWait ==
    /\ sub.console = "wait"
    /\ sub' = [sub EXCEPT !.console = "close"]
    /\ UNCHANGED <<purl, checkA11y, ppc, pbrowser, pages, val, failed, ppending, pret>>
    /\ UNCHANGED <<argVars, crawlVars, discVars>>
    /\ UNCHANGED <<log, srvVars, libVars>>

\* collectConsoleErrors: finally { await errorPage.close(); } return consoleErrors
ConsoleClose ==
    /\ sub.console = "close"
    /\ IF BrowserAlive
       THEN /\ pages' = [pages EXCEPT !.errorPage.open = FALSE]
            /\ sub' = [sub EXCEPT !.console = "done"]
            /\ val' = [val EXCEPT !.console =
                          IF pages.errorPage.nav = "done" THEN ConsoleEvents(purl)
                          ELSE <<>>]
       ELSE /\ sub' = [sub EXCEPT !.console = "failed"]
            /\ val' = [val EXCEPT !.console = Failure("Protocol error")]
            /\ UNCHANGED pages
    /\ UNCHANGED <<purl, checkA11y, ppc, pbrowser, failed, ppending, pret>>
    /\ UNCHANGED <<argVars, crawlVars, discVars>>
    /\ UNCHANGED <<log, srvVars, libVars>>

SubChecks == {"lighthouse", "axe", "dom", "console"}

\* await Promise.all([...]) resumes checkSinglePage: with the rejection of the
\* first sub-check that failed, or with the four values
ChecksSettled ==
    /\ ppc = "checks"
    /\ \/ /\ \E s \in SubChecks : sub[s] = "failed" /\ ppending' = val[s]
          /\ ppc' = "closing"
       \/ /\ \A s \in SubChecks : sub[s] = "done"
          /\ ppc' = "linking"
          /\ UNCHANGED ppending
    /\ UNCHANGED <<purl, checkA11y, pbrowser, pages, sub, val, failed, pret>>
    /\ UNCHANGED <<argVars, crawlVars, discVars>>
    /\ UNCHANGED <<log, srvVars, libVars>>

\* const siteLinks = await collectSiteLinks(page, url), which returns [] when
\* page.evaluate() rejects; return { url, timestamp, scores, issues, ... }
PageSiteLinks ==
    /\ ppc = "linking"
    /\ \E ok \in BOOLEAN :
          /\ ppending' = Success(PageResult(purl, val.lighthouse, val.axe, val.dom,
                                  val.console,
                                  IF ok THEN collectSiteLinks(purl) ELSE <<>>,
                                  auth))
          /\ failed' = IF ok THEN failed ELSE failed \cup {"siteLinks"}
    /\ ppc' = "closing"
    /\ UNCHANGED <<purl, checkA11y, pbrowser, pages, sub, val, pret>>
    /\ UNCHANGED <<argVars, crawlVars, discVars>>
    /\ UNCHANGED <<log, srvVars, libVars>>

ClosePageBrowser(b) == [b EXCEPT !.closes = @ + 1]

\* finally { await browser.close(); }
PageClose ==
    /\ ppc = "closing"
    /\ pbrowser' = ClosePageBrowser(pbrowser)
    /\ ppc' = IF ppending.ok THEN "returned" ELSE "thrown"
    /\ pret' = ppending
    /\ UNCHANGED <<purl, checkA11y, pages, sub, val, failed, ppending>>
    /\ UNCHANGED <<argVars, crawlVars, discVars>>
    /\ UNCHANGED <<log, srvVars, libVars>>

PageAuths == {NullAuth, Creds, NoPass}

InitPage ==
    /\ op = "checkSinglePage"
    /\ startUrl = NoUrl
    /\ urls = NullUrls
    /\ auth \in PageAuths
    /\ pc = "idle"
    /\ urlsToAnalyze = <<>>
    /\ i = 0
    /\ results = <<>>
    /\ tasks = <<>>
    /\ ret = None
    /\ currentUrl = NoUrl
    /\ launchCount = 0
    /\ launchFailed = FALSE
    /\ outOfOrder = FALSE
    /\ dpc = "idle"
    /\ dbrowser = [launched |-> FALSE, closes |-> 0]
    /\ dpage = NoPage
    /\ toVisit = <<>>
    /\ visited = {}
    /\ discovered = <<>>
    /\ cur = NoUrl
    /\ dret = None
    /\ purl \in {Root, DirPage, BlogPost}
    /\ checkA11y \in BOOLEAN
    /\ ppc = "call"
    /\ pbrowser = [launched |-> FALSE, closes |-> 0]
    /\ pages = NoPages
    /\ sub = IdleSubs
    /\ val = NoVals
    /\ failed = {}
    /\ ppending = None
    /\ pret = None
    /\ navFailed = {}
    /\ log = {}
    /\ req = NoRequest
    /\ env = NoEnv
    /\ res = None
    /\ spc = "idle"
    /\ callee = "none"
    /\ args = <<>>
    /\ result = None

NextPage ==
    \/ PageCall
    \/ PageLaunch
    \/ PageOpen
    \/ PageGoto
    \/ LhAudit
    \/ LhFallbackOpen
    \/ LhFallbackGoto
    \/ LhFallbackEval
    \/ AxeAnalyze
    \/ DomContent
    \/ ConsoleNewPage
    \/ ConsoleGoto
    \/ ConsoleWait
    \/ ConsoleClose
    \/ ChecksSettled
    \/ PageSiteLinks
    \/ PageClose

SpecPage == InitPage /\ [][NextPage]_vars

(***************************************************************************)
(* validateUrl (utils/validation.js)                                       *)
(***************************************************************************)
\* A value handed to validateUrl is a string, modelled by the URL record it
\* parses to (NotAUrl when `new URL` throws on it), or one of these:
EmptyString == [kind |-> "empty"]
Null        == [kind |-> "null"]
ANumber     == [kind |-> "number", n |-> 30]

IsString(v) == "scheme" \in DOMAIN v

\* !url : undefined, null and '' are falsy
IsFalsy(v) ==
    /\ ~IsString(v)
    /\ \/ v.kind \in {"undefined", "null", "empty"}
       \/ v.kind = "number" /\ v.n = 0

\* /^\d+\.\d+\.\d+\.\d+$/.test(hostname), for the hostnames of the model
IsDottedQuad(h) == h \in {"127.0.0.1", "10.0.0.1", "192.168.1.1"}

\* the return value null
NoError == "null"

\* the function with the test of a dotted quad before the test of localhost
validateUrlQuadFirst(v) ==
    IF IsFalsy(v) THEN "URL is required"
    ELSE IF ~IsString(v) THEN "URL must be a string"
    ELSE IF ~IsParseable(v) THEN "Invalid URL format"
    ELSE IF v.scheme # "https" THEN "Only HTTPS URLs are allowed"
    ELSE IF IsDottedQuad(v.host) THEN "IP addresses are not allowed"
    ELSE IF v.host \in {"localhost", "127.0.0.1"} THEN "Localhost URLs are not allowed"
    ELSE NoError

validateUrl(v) ==
    IF IsFalsy(v) THEN "URL is required"
    ELSE IF ~IsString(v) THEN "URL must be a string"
    ELSE IF ~IsParseable(v) THEN "Invalid URL format"
    ELSE IF v.scheme # "https" THEN "Only HTTPS URLs are allowed"
    ELSE IF v.host \in {"localhost", "127.0.0.1"} THEN "Localhost URLs are not allowed"
    ELSE IF IsDottedQuad(v.host) THEN "IP addresses are not allowed"
    ELSE NoError

\* every variable of the pipeline and of the server at rest, for the
\* specifications of a single function
PipelineIdle ==
    /\ op = "none"
    /\ startUrl = NoUrl
    /\ urls = NullUrls
    /\ auth = NullAuth
    /\ pc = "idle"
    /\ urlsToAnalyze = <<>>
    /\ i = 0
    /\ results = <<>>
    /\ tasks = <<>>
    /\ ret = None
    /\ currentUrl = NoUrl
    /\ launchCount = 0
    /\ launchFailed = FALSE
    /\ outOfOrder = FALSE
    /\ dpc = "idle"
    /\ dbrowser = [launched |-> FALSE, closes |-> 0]
    /\ dpage = NoPage
    /\ toVisit = <<>>
    /\ visited = {}
    /\ discovered = <<>>
    /\ cur = NoUrl
    /\ dret = None
    /\ navFailed = {}
    /\ purl = NoUrl
    /\ checkA11y = TRUE
    /\ ppc = "idle"
    /\ pbrowser = [launched |-> FALSE, closes |-> 0]
    /\ pages = NoPages
    /\ sub = IdleSubs
    /\ val = NoVals
    /\ failed = {}
    /\ ppending = None
    /\ pret = None
    /\ log = {}
    /\ req = NoRequest
    /\ env = NoEnv
    /\ res = None
    /\ spc = "idle"

PipelineUnchanged ==
    UNCHANGED <<argVars, crawlVars, discVars, pageVars, log, srvVars>>

\* protocols and hostnames of the strings handed to validateUrl
ValidateSchemes == {"https", "http", "ftp"}
ValidateHosts ==
    {"example.com", "www.google.com", "localhost", "127.0.0.1", "10.0.0.1",
     "192.168.1.1"}

AnObject == [kind |-> "object"]

\* the values handed to validateUrl: nothing, null, '', 0, 123, {}, strings
\* that do not parse, and strings that parse
ValidateInputs ==
    {Undefined, Null, EmptyString, NumberArg(0), ANumber, AnObject, NotAUrl}
        \cup {[scheme |-> sc, host |-> h, path |-> p, slash |-> (p = <<>>),
               query |-> {}, frag |-> f] :
                 sc \in ValidateSchemes, h \in ValidateHosts,
                 p \in {<<>>, <<Seg("dir", "")>>}, f \in BOOLEAN}

\* the call returns
ValidateUrl ==
    /\ callee = "validateUrl" /\ result = None
    /\ result' = Success(validateUrl(args[1]))
    /\ UNCHANGED <<callee, args>>
    /\ PipelineUnchanged

InitValidate ==
    /\ callee = "validateUrl"
    /\ \E v \in ValidateInputs : args = <<v>>
    /\ result = None
    /\ PipelineIdle

NextValidate == ValidateUrl

SpecValidate == InitValidate /\ [][NextValidate]_vars

(***************************************************************************)
(* collectSiteLinks on its own (SpecSiteLinks)                             *)
(***************************************************************************)
\* the k-th link of a long page: https://x.com/p/p/.../p with k segments
DeepLink(k) == Url("x.com", [j \in 1..k |-> Seg("p", "")], FALSE)

\* links that the filter drops or folds into another: the page itself, a link
\* to another host, a document, the first link with a trailing slash and the
\* first link with a fragment
OddLinks ==
    {Root, External, Url("x.com", <<Seg("doc", ".pdf")>>, FALSE),
     [DeepLink(1) EXCEPT !.slash = TRUE], [DeepLink(1) EXCEPT !.frag = TRUE]}

\* what page.evaluate returns: n distinct links with one odd link put in
\* after the first j of them
PageLinkLists ==
    {[k \in 1..(n + 1) |-> IF k <= j THEN DeepLink(k)
                           ELSE IF k = j + 1 THEN odd
                           ELSE DeepLink(k - 1)] :
        n \in 0..(MaxPageLinks - 1),
        j \in {0, 1, MaxSiteLinks - 1, MaxSiteLinks},
        odd \in OddLinks}

\* collectSiteLinks(page, currentUrl) returns: the list the loop built, or []
\* from the catch clause when page.evaluate rejects
CollectSiteLinks ==
    /\ callee = "collectSiteLinks" /\ result = None
    /\ \/ result' = [ok |-> TRUE, caught |-> FALSE,
                     value |-> SiteLinksLoop(args[1], args[2], <<>>)]
       \/ result' = [ok |-> TRUE, caught |-> TRUE, value |-> <<>>]
    /\ UNCHANGED <<callee, args>>
    /\ PipelineUnchanged

InitSiteLinks ==
    /\ callee = "collectSiteLinks"
    /\ \E links \in PageLinkLists : args = <<links, Root>>
    /\ result = None
    /\ PipelineIdle

NextSiteLinks == CollectSiteLinks

SpecSiteLinks == InitSiteLinks /\ [][NextSiteLinks]_vars

(***************************************************************************)
(* discoverUrls as a function of the start URL and of the set of URLs      *)
(* whose page could not be opened, loaded or read                          *)
(***************************************************************************)
\* the while loop of discoverUrls: the list it returns from a given state
RECURSIVE DiscoverLoop(_, _, _, _, _)
DiscoverLoop(queue, vis, disc, startDomain, unreadable) ==
    IF queue = <<>> THEN disc
    ELSE LET u == Head(queue)
         IN  IF u \in vis
             THEN DiscoverLoop(Tail(queue), vis, disc, startDomain, unreadable)
             ELSE DiscoverLoop(IF u \in unreadable THEN Tail(queue)
                               ELSE Enqueue(HttpLinks(u), startDomain,
                                            vis \cup {u}, Tail(queue)),
                               vis \cup {u}, Append(disc, u), startDomain,
                               unreadable)

DiscoveredFrom(start, unreadable) ==
    DiscoverLoop(<<StripTrailingSlash(OriginPlusPathname(start))>>, {}, <<>>,
                 start.host, unreadable)

(***************************************************************************)
(* Specification: one call of discoverUrls or countPages (SpecDisc)        *)
(***************************************************************************)
\* discoverUrls(startUrl, auth) is called
DiscoverCall ==
    /\ op = "discoverUrls" /\ pc = "call"
    /\ pc' = "discover"
    /\ dpc' = "launching"
    /\ UNCHANGED <<urlsToAnalyze, i, results, tasks, ret, currentUrl,
                   launchCount, launchFailed, outOfOrder>>
    /\ UNCHANGED <<dbrowser, dpage, toVisit, visited, discovered, cur, dret, navFailed>>
    /\ UNCHANGED <<argVars, pageVars>>
    /\ UNCHANGED <<log, srvVars, libVars>>

\* the caller of discoverUrls receives what it returned or threw
DiscoverSettled ==
    /\ op = "discoverUrls" /\ pc = "discover" /\ dpc \in {"returned", "thrown"}
    /\ pc' = dpc
    /\ ret' = dret
    /\ UNCHANGED <<urlsToAnalyze, i, results, tasks, currentUrl,
                   launchCount, launchFailed, outOfOrder>>
    /\ UNCHANGED <<argVars, discVars, pageVars>>
    /\ UNCHANGED <<log, srvVars, libVars>>

DiscStartUrls == {WRoot, [WAbout EXCEPT !.slash = TRUE], Root, NotAUrl}

InitDisc ==
    /\ op \in {"discoverUrls", "countPages"}
    /\ urls = NullUrls
    /\ startUrl \in DiscStartUrls
    /\ auth \in Auths
    /\ pc = "call"
    /\ urlsToAnalyze = <<>>
    /\ i = 0
    /\ results = <<>>
    /\ tasks = <<>>
    /\ ret = None
    /\ currentUrl = NoUrl
    /\ launchCount = 0
    /\ launchFailed = FALSE
    /\ outOfOrder = FALSE
    /\ dpc = "idle"
    /\ dbrowser = [launched |-> FALSE, closes |-> 0]
    /\ dpage = NoPage
    /\ toVisit = <<>>
    /\ visited = {}
    /\ discovered = <<>>
    /\ cur = NoUrl
    /\ dret = None
    /\ navFailed = {}
    /\ purl = NoUrl
    /\ checkA11y = TRUE
    /\ ppc = "idle"
    /\ pbrowser = [launched |-> FALSE, closes |-> 0]
    /\ pages = NoPages
    /\ sub = IdleSubs
    /\ val = NoVals
    /\ failed = {}
    /\ ppending = None
    /\ pret = None
    /\ log = {}
    /\ req = NoRequest
    /\ env = NoEnv
    /\ res = None
    /\ spc = "idle"
    /\ callee = "none"
    /\ args = <<>>
    /\ result = None

NextDisc ==
    \/ DiscoverCall
    \/ DiscoverSettled
    \/ CountCall
    \/ CountSettled
    \/ DiscLaunch
    \/ DiscDequeue
    \/ DiscOpenPage
    \/ DiscGoto
    \/ DiscExtract
    \/ DiscReturn
    \/ DiscClose

SpecDisc == InitDisc /\ [][NextDisc]_vars

\* Every continuation of the traversal that is ready runs: the event loop
\* resumes a function whose awaited promise has settled, and each await of the
\* traversal settles (page.goto within its timeout of 30 s, the other calls
\* within the protocol timeout of the browser).
SpecDiscFair == SpecDisc /\ WF_vars(NextDisc)

(***************************************************************************)
(* The server: POST /api/crawl (server.js, routes/check.js)  (SpecServer)  *)
(***************************************************************************)
\* process.env.MAX_PAGES as set by the operator (environment values are strings)
MaxPagesSetting == 2

\* README: the default number of pages of a crawl
DefaultMaxPages == 30

\* the largest maxPages the route accepts
MaxPagesLimit == 50

\* the page cap in force
MaxPagesCap ==
    IF env.MAX_PAGES = Undefined THEN DefaultMaxPages ELSE env.MAX_PAGES.n

\* Object.keys(req.body).length > 0
HasKeys(body) ==
    body.startUrl # Undefined \/ body.maxPages # Undefined \/ ~body.auth.isNull

\* the logging middleware: the origin line, then the curl line, which for a
\* request with a body other than GET carries JSON.stringify(req.body)
Middleware ==
    /\ spc = "received"
    /\ log' = log
          \cup (IF req.origin
                THEN {ConsoleLine("Request from origin", NoUrl, 0, req.method, NoJson)}
                ELSE {})
          \cup {ConsoleLine("curl", NoUrl, 0, req.method,
                            IF req.method # "GET" /\ HasKeys(req.body)
                            THEN JsonStringify(req.body) ELSE NoJson)}
    /\ spc' = "routing"
    /\ UNCHANGED <<req, env, res>>
    /\ UNCHANGED <<argVars, crawlVars, discVars, pageVars, libVars>>

\* const { startUrl, maxPages = process.env.MAX_PAGES || 30, auth } = req.body
MaxPagesOf(body) ==
    IF body.maxPages # Undefined THEN body.maxPages
    ELSE IF env.MAX_PAGES # Undefined THEN env.MAX_PAGES
    ELSE NumberArg(DefaultMaxPages)

\* maxPages > 50 : numbers and numerals compare by value, null as 0, and an
\* array of URLs converts to NaN, for which every comparison is false
ExceedsLimit(mp) == mp.kind \in {"number", "string"} /\ mp.n > MaxPagesLimit

\* router.post('/crawl'): validation, then crawlSite(startUrl, maxPages, auth)
\* runs up to its first await
RouteCrawl ==
    /\ spc = "routing" /\ req.route = "/api/crawl"
    /\ LET validationError == validateUrl(req.body.startUrl)
           maxPages        == MaxPagesOf(req.body)
       IN  IF validationError # NoError
           THEN /\ res' = [status |-> 400, error |-> validationError]
                /\ spc' = "done"
                /\ UNCHANGED <<argVars, pc>>
           ELSE IF ExceedsLimit(maxPages)
           THEN /\ res' = [status |-> 400,
                           error  |-> "Max pages cannot exceed 50 for performance reasons"]
                /\ spc' = "done"
                /\ UNCHANGED <<argVars, pc>>
           ELSE /\ op' = "crawlSite"
                /\ startUrl' = req.body.startUrl
                /\ urls' = maxPages
                /\ auth' = req.body.auth
                /\ pc' = "call"
                /\ spc' = "awaiting"
                /\ UNCHANGED res
    /\ UNCHANGED <<urlsToAnalyze, i, results, tasks, ret, currentUrl,
                   launchCount, launchFailed, outOfOrder>>
    /\ UNCHANGED <<req, env, log>>
    /\ UNCHANGED <<discVars, pageVars, libVars>>

\* await crawlSite(...) settles: res.json(results), or the catch clause:
\* console.error('Crawl API Error:', error); res.status(500).json(...)
RouteCrawlSettled ==
    /\ spc = "awaiting" /\ pc \in {"returned", "thrown"}
    /\ IF pc = "returned"
       THEN /\ res' = [status |-> 200, body |-> ret.value]
            /\ UNCHANGED log
       ELSE /\ res' = [status |-> 500, error |-> "Crawling failed",
                       message |-> ret.message]
            /\ log' = log \cup {ConsoleLine("Crawl API Error:", NoUrl, 0,
                                            ret.message, NoJson)}
    /\ spc' = "done"
    /\ UNCHANGED <<req, env>>
    /\ UNCHANGED <<argVars, crawlVars, discVars, pageVars, libVars>>

\* the values of maxPages a client sends: none, numbers, null, a list of URLs
MaxPagesValues ==
    {Undefined, NumberArg(0), NumberArg(MaxPagesSetting), NumberArg(MaxPagesLimit + 1),
     NullUrls, UrlList(<<DirPage, BlogPost>>)}

\* the start URLs a client sends
RequestUrls == {Root, [Root EXCEPT !.scheme = "http"], Undefined}

\* the requests served; those that get past the validation and start a crawl
\* come from a browser (with an Origin header) and carry credentials
Requests ==
    {r \in {[route |-> "/api/crawl", method |-> "POST", origin |-> o,
             body |-> [startUrl |-> u, maxPages |-> mp, auth |-> a]] :
                o \in BOOLEAN, u \in RequestUrls, mp \in MaxPagesValues, a \in Auths} :
        r.body.startUrl = Root => (r.origin /\ r.body.auth = Creds)}

Envs == {NoEnv, [MAX_PAGES |-> StringArg(MaxPagesSetting)]}

InitServer ==
    /\ req \in Requests
    /\ env \in Envs
    /\ res = None
    /\ spc = "received"
    /\ log = {}
    /\ op = "none"
    /\ startUrl = NoUrl
    /\ urls = NullUrls
    /\ auth = NullAuth
    /\ pc = "idle"
    /\ urlsToAnalyze = <<>>
    /\ i = 0
    /\ results = <<>>
    /\ tasks = <<>>
    /\ ret = None
    /\ currentUrl = NoUrl
    /\ launchCount = 0
    /\ launchFailed = FALSE
    /\ outOfOrder = FALSE
    /\ dpc = "idle"
    /\ dbrowser = [launched |-> FALSE, closes |-> 0]
    /\ dpage = NoPage
    /\ toVisit = <<>>
    /\ visited = {}
    /\ discovered = <<>>
    /\ cur = NoUrl
    /\ dret = None
    /\ navFailed = {}
    /\ purl = NoUrl
    /\ checkA11y = TRUE
    /\ ppc = "idle"
    /\ pbrowser = [launched |-> FALSE, closes |-> 0]
    /\ pages = NoPages
    /\ sub = IdleSubs
    /\ val = NoVals
    /\ failed = {}
    /\ ppending = None
    /\ pret = None
    /\ callee = "none"
    /\ args = <<>>
    /\ result = None

NextServer ==
    \/ Middleware
    \/ RouteCrawl
    \/ RouteCrawlSettled
    \/ CrawlCall
    \/ CrawlDiscovered
    \/ StartBatch
    \/ \E k \in DOMAIN tasks : TaskLaunch(k)
    \/ \E k \in DOMAIN tasks : TaskOpenPage(k)
    \/ \E k \in DOMAIN tasks : TaskGoto(k)
    \/ \E k \in DOMAIN tasks : TaskChecks(k)
    \/ \E k \in DOMAIN tasks : TaskClose(k)
    \/ EndBatch
    \/ CrawlReturn
    \/ DiscLaunch
    \/ DiscDequeue
    \/ DiscOpenPage
    \/ DiscGoto
    \/ DiscExtract
    \/ DiscReturn
    \/ DiscClose

SpecServer == InitServer /\ [][NextServer]_vars

(***************************************************************************)
(* analyzeHeadings (SpecHeadings)                                          *)
(*                                                                         *)
(* A document is the sequence of its h1..h6 elements in document order;    *)
(* of an element the function reads the level of its tag, whether its      *)
(* trimmed text is non-empty, and whether it holds an img.                 *)
(***************************************************************************)
HeadingLevels == 1..6

Heading(level, text, hasImages) ==
    [level |-> level, text |-> text, hasImages |-> hasImages]

\* heading elements: with text, with an image only, with neither
Headings ==
    {Heading(l, c[1], c[2]) :
        l \in HeadingLevels, c \in {<<TRUE, FALSE>>, <<FALSE, TRUE>>, <<FALSE, FALSE>>}}

HeadingSeqs == UNION {[1..n -> Headings] : n \in 0..MaxHeadings}

\* heading.tagName
TagName(level) == <<"h", level>>

\* an entry of the issue list; from and to are the numbers a message names
\* (0 where it names none)
HeadingIssue(type, element, text, from, to, severity) ==
    [type |-> type, element |-> element,
     message |-> [text |-> text, from |-> from, to |-> to],
     severity |-> severity]

NoElement == <<>>

\* the callback without "index > 0" in the test of a skipped level
HeadingStepFromFirst(heading, index, previousLevel) ==
    (IF ~heading.text /\ ~heading.hasImages
     THEN << HeadingIssue("empty heading", TagName(heading.level),
                          "heading is empty", 0, 0, "error") >>
     ELSE <<>>)
    \o
    (IF heading.level > previousLevel + 1
     THEN << HeadingIssue("heading level skip", TagName(heading.level),
                          "heading level skips from h.. to h..",
                          previousLevel, heading.level, "warning") >>
     ELSE <<>>)

\* the body of headings.forEach for the element at index (counted from 0):
\* the issues it pushes
HeadingStep(heading, index, previousLevel) ==
    (IF ~heading.text /\ ~heading.hasImages
     THEN << HeadingIssue("empty heading", TagName(heading.level),
                          "heading is empty", 0, 0, "error") >>
     ELSE <<>>)
    \o
    (IF index > 0 /\ heading.level > previousLevel + 1
     THEN << HeadingIssue("heading level skip", TagName(heading.level),
                          "heading level skips from h.. to h..",
                          previousLevel, heading.level, "warning") >>
     ELSE <<>>)

\* headings.forEach from index on, with previousLevel as the loop left it
RECURSIVE ForEachHeading(_, _, _)
ForEachHeading(headings, index, previousLevel) ==
    IF index >= Len(headings) THEN <<>>
    ELSE LET heading == headings[index + 1]
         IN  HeadingStep(heading, index, previousLevel)
                 \o ForEachHeading(headings, index + 1, heading.level)

\* $('h1').length
H1Count(headings) == Cardinality({k \in DOMAIN headings : headings[k].level = 1})

\* the check with "h1Count > 2" for "h1Count > 1"
H1CheckFromThree(h1Count) ==
    IF h1Count = 0
    THEN << HeadingIssue("no h1", NoElement, "no h1 heading found", 0, 0, "error") >>
    ELSE IF h1Count > 2
    THEN << HeadingIssue("multiple h1", NoElement, "more than one h1 heading (.. of them)",
                         h1Count, 0, "warning") >>
    ELSE <<>>

\* if (h1Count === 0) {...} else if (h1Count > 1) {...}
H1Check(h1Count) ==
    IF h1Count = 0
    THEN << HeadingIssue("no h1", NoElement, "no h1 heading found", 0, 0, "error") >>
    ELSE IF h1Count > 1
    THEN << HeadingIssue("multiple h1", NoElement, "more than one h1 heading (.. of them)",
                         h1Count, 0, "warning") >>
    ELSE <<>>

analyzeHeadings(headings) ==
    ForEachHeading(headings, 0, 0) \o H1Check(H1Count(headings))

\* the call returns
AnalyzeHeadings ==
    /\ callee = "analyzeHeadings" /\ result = None
    /\ result' = Success(analyzeHeadings(args[1]))
    /\ UNCHANGED <<callee, args>>
    /\ UNCHANGED <<argVars, crawlVars, discVars, pageVars, log, srvVars>>

InitHeadings ==
    /\ callee = "analyzeHeadings"
    /\ \E headings \in HeadingSeqs : args = <<headings>>
    /\ result = None
    /\ op = "none"
    /\ startUrl = NoUrl
    /\ urls = NullUrls
    /\ auth = NullAuth
    /\ pc = "idle"
    /\ urlsToAnalyze = <<>>
    /\ i = 0
    /\ results = <<>>
    /\ tasks = <<>>
    /\ ret = None
    /\ currentUrl = NoUrl
    /\ launchCount = 0
    /\ launchFailed = FALSE
    /\ outOfOrder = FALSE
    /\ dpc = "idle"
    /\ dbrowser = [launched |-> FALSE, closes |-> 0]
    /\ dpage = NoPage
    /\ toVisit = <<>>
    /\ visited = {}
    /\ discovered = <<>>
    /\ cur = NoUrl
    /\ dret = None
    /\ navFailed = {}
    /\ purl = NoUrl
    /\ checkA11y = TRUE
    /\ ppc = "idle"
    /\ pbrowser = [launched |-> FALSE, closes |-> 0]
    /\ pages = NoPages
    /\ sub = IdleSubs
    /\ val = NoVals
    /\ failed = {}
    /\ ppending = None
    /\ pret = None
    /\ log = {}
    /\ req = NoRequest
    /\ env = NoEnv
    /\ res = None
    /\ spc = "idle"

NextHeadings == AnalyzeHeadings

SpecHeadings == InitHeadings /\ [][NextHeadings]_vars

(***************************************************************************)
(* checkUnclosedTags (SpecTags)                                            *)
(*                                                                         *)
(* The markup is the sequence of the matches of tagRegex in it: of a match *)
(* the function reads whether it is an end tag, its name in lower case and *)
(* its position, which here is its index in the sequence.                  *)
(***************************************************************************)
\* of the void elements the markup of the model uses br
voidElements == {"area", "base", "br", "col", "embed", "hr", "img", "input",
                 "link", "meta", "param", "source", "track", "wbr"}

TagNames == {"div", "span", "br"}

Tag(isClosing, tagName) == [isClosing |-> isClosing, tagName |-> tagName]

Markups == UNION {[1..n -> {Tag(c, t) : c \in BOOLEAN, t \in TagNames}] : n \in 0..MaxTags}

\* an entry of the issue list (suggestion is "" where the source sets none)
TagIssue(type, element, text, position, suggestion) ==
    [type |-> type, element |-> element, message |-> <<text, element>>,
     severity |-> "error", position |-> position, suggestion |-> suggestion]

\* the while loop over the matches from the one at position on: the stack (of
\* names with positions) and the issues when the loop ends
RECURSIVE TagLoop(_, _, _, _)
TagLoop(tags, position, stack, issues) ==
    IF position > Len(tags) THEN [stack |-> stack, issues |-> issues]
    ELSE LET tagName == tags[position].tagName
         IN  IF tagName \in voidElements
             THEN TagLoop(tags, position + 1, stack, issues)
             ELSE IF tags[position].isClosing
             THEN LET popped == IF stack = <<>> THEN stack
                                ELSE SubSeq(stack, 1, Len(stack) - 1)
                      unmatched == \/ stack = <<>>
                                   \/ stack[Len(stack)].name # tagName
                  IN  TagLoop(tags, position + 1, popped,
                              IF unmatched
                              THEN Append(issues,
                                          TagIssue("closing tag error", tagName,
                                                   "no matching opening tag for </..>",
                                                   position, ""))
                              ELSE issues)
             ELSE TagLoop(tags, position + 1,
                          Append(stack, [name |-> tagName, position |-> position]),
                          issues)

\* stack.forEach(tag => issues.push({type: unclosed tag, ...}))
UnclosedIssues(stack) ==
    [k \in DOMAIN stack |->
        TagIssue("unclosed tag", stack[k].name, "<..> tag is not closed",
                 stack[k].position, "close it with </..>")]

\* the issues the function pushes on an empty list
checkUnclosedTags(tags) ==
    LET end == TagLoop(tags, 1, <<>>, <<>>)
    IN  end.issues \o UnclosedIssues(end.stack)

\* the call returns
CheckUnclosedTags ==
    /\ callee = "checkUnclosedTags" /\ result = None
    /\ result' = Success(checkUnclosedTags(args[1]))
    /\ UNCHANGED <<callee, args>>
    /\ PipelineUnchanged

InitTags ==
    /\ callee = "checkUnclosedTags"
    /\ \E tags \in Markups : args = <<tags>>
    /\ result = None
    /\ PipelineIdle

NextTags == CheckUnclosedTags

SpecTags == InitTags /\ [][NextTags]_vars

(***************************************************************************)
(* analyzeImages: the svg elements (SpecSvg)                               *)
(*                                                                         *)
(* A document is the sequence of its svg elements; it has no img.  Of an   *)
(* svg the function reads the attributes role, aria-label and              *)
(* aria-labelledby ("" when absent or empty) and the text of its title     *)
(* descendants.                                                            *)
(***************************************************************************)
Svg(role, ariaLabel, ariaLabelledby, title) ==
    [role |-> role, ariaLabel |-> ariaLabel, ariaLabelledby |-> ariaLabelledby,
     title |-> title]

Svgs ==
    {Svg(r, l, b, t) : r \in {"", "img", "presentation", "button"},
                       l \in {"", "Logo"}, b \in {"", "logo-title"},
                       t \in {"", "Logo"}}

SvgDocuments == UNION {[1..n -> Svgs] : n \in 0..MaxSvgs}

\* role !== 'img' && role !== 'presentation' && !ariaLabel && !ariaLabelledby && !title
SvgLacksDescription(svg) ==
    /\ svg.role # "img"
    /\ svg.role # "presentation"
    /\ svg.ariaLabel = ""
    /\ svg.ariaLabelledby = ""
    /\ svg.title = ""

\* the issue pushed for an svg
SvgIssue(svg) ==
    [type |-> "svg accessibility", element |-> "svg", severity |-> "warning",
     details |-> [role |-> svg.role, ariaLabel |-> svg.ariaLabel,
                  ariaLabelledby |-> svg.ariaLabelledby,
                  hasTitle |-> (svg.title # "")]]

\* $('svg').each(...) from the given issues on
RECURSIVE SvgEach(_, _)
SvgEach(svgs, issues) ==
    IF svgs = <<>> THEN issues
    ELSE SvgEach(Tail(svgs),
                 IF SvgLacksDescription(Head(svgs))
                 THEN Append(issues, SvgIssue(Head(svgs)))
                 ELSE issues)

\* analyzeImages($) for a document without img: the issues of its svg elements
analyzeImages(svgs) == SvgEach(svgs, <<>>)

\* the call returns
AnalyzeImages ==
    /\ callee = "analyzeImages" /\ result = None
    /\ result' = Success(analyzeImages(args[1]))
    /\ UNCHANGED <<callee, args>>
    /\ PipelineUnchanged

InitSvg ==
    /\ callee = "analyzeImages"
    /\ \E svgs \in SvgDocuments : args = <<svgs>>
    /\ result = None
    /\ PipelineIdle

NextSvg == AnalyzeImages

SpecSvg == InitSvg /\ [][NextSvg]_vars

(***************************************************************************)
(* The score computation of calculateBasicScores (SpecScores)              *)
(***************************************************************************)
\* load times in ms, around the steps of 50 ms and the 5 s mark
MeasuredLoadTimes == {0, 49, 50, 120, 4950, 4999, 5000, 5001, 6000}

\* numbers of resources, around the 50 that are free and the 150 that cost
\* all points
ResourceCounts == {0, 12, 50, 51, 62, 149, 150, 151, 400}

MeasuredMetrics ==
    [hasTitle : BOOLEAN, hasDescription : BOOLEAN, hasH1 : BOOLEAN,
     imagesWithoutAlt : 0..MaxImagesWithoutAlt,
     totalImages : {MaxImagesWithoutAlt},
     resourceCount : ResourceCounts]

\* the statements after page.close(): the scores of the measured values
CalculateBasicScores ==
    /\ callee = "calculateBasicScores" /\ result = None
    /\ result' = Success([scores |-> BasicScores(args[1], args[2]),
                          accessibility |-> <<>>])
    /\ UNCHANGED <<callee, args>>
    /\ PipelineUnchanged

InitScores ==
    /\ callee = "calculateBasicScores"
    /\ \E loadTime \in MeasuredLoadTimes, metrics \in MeasuredMetrics :
          args = <<loadTime, metrics>>
    /\ result = None
    /\ PipelineIdle

NextScores == CalculateBasicScores

SpecScores == InitScores /\ [][NextScores]_vars

(***************************************************************************)
(* Claims about crawlSite, checked under Spec                              *)
(***************************************************************************)
IsErrorEntry(r) == /\ "error" \in DOMAIN r
                   /\ r.error # ""
                   /\ "scores" \notin DOMAIN r
                   /\ "issues" \notin DOMAIN r

IsFullEntry(r)  == /\ "error" \notin DOMAIN r
                   /\ "scores" \in DOMAIN r
                   /\ "issues" \in DOMAIN r

\* C1: during a crawlSite call the number of checkSinglePage calls that have
\* started and have not settled is never greater than 3.
C1_AtMostThreeInFlight == Cardinality(InFlight) <= 3

\* three analyses are in flight while a fourth URL waits for the next batch
C1_Witness ==
    /\ Cardinality(InFlight) = 3
    /\ Len(urlsToAnalyze) > 3
    /\ \E k \in DOMAIN tasks : tasks[k].st = "closing" /\ ~tasks[k].pending.ok

\* C2: with a supplied URL list the crawl is never aborted: whatever pages
\* fail, every page of a batch contributes one entry, an error entry (non-empty
\* error, no scores, no issues) when its analysis failed and a full entry
\* (scores and issues, no error) otherwise; the returned results have one
\* entry per supplied URL and totalPages is their number.
C2_SuppliedListCompletes ==
    /\ [](urls.kind = "list" =>
            /\ pc # "thrown"
            /\ pc = "returned" =>
                  /\ Len(ret.value.results) = Len(urls.list)
                  /\ ret.value.totalPages = Len(ret.value.results)
                  /\ \A k \in 1..Len(ret.value.results) :
                        /\ ret.value.results[k].url = urls.list[k]
                        /\ \/ IsErrorEntry(ret.value.results[k])
                           \/ IsFullEntry(ret.value.results[k]))
    /\ [][(urls.kind = "list" /\ results' # results) =>
            /\ Len(results') = Len(results) + Len(tasks)
            /\ \A k \in DOMAIN tasks :
                  IF tasks[k].out.ok
                  THEN IsFullEntry(results'[Len(results) + k])
                  ELSE IsErrorEntry(results'[Len(results) + k])]_vars

\* a crawl of a supplied list has returned with an entry of a page that failed
\* without an error message next to entries of analyzed pages
C2_Witness ==
    /\ urls.kind = "list" /\ pc = "returned"
    /\ Len(ret.value.results) >= 3
    /\ \E k \in 1..Len(ret.value.results) :
          /\ IsErrorEntry(ret.value.results[k])
          /\ ret.value.results[k].error = "Unknown error occurred"
    /\ \E k \in 1..Len(ret.value.results) : IsFullEntry(ret.value.results[k])

\* C3: called without urls, crawlSite runs discovery and then returns a
\* CrawlResult with one entry for every discovered URL; it does not throw when
\* discovery returned one or more URLs.
C3_DiscoveredCrawlReturns ==
    (/\ op = "crawlSite" /\ urls.kind = "null"
     /\ dpc = "returned" /\ Len(discovered) >= 1
     /\ pc \in {"returned", "thrown"})
    => (pc = "returned" /\ Len(ret.value.results) = Len(discovered))

\* C4: results[k].url is the k-th URL of the analyzed list, whatever the order
\* in which the analyses of a batch complete.
C4_ResultsInListOrder ==
    /\ Len(results) <= Len(urlsToAnalyze)
    /\ \A k \in 1..Len(results) : results[k].url = urlsToAnalyze[k]
    /\ pc = "returned" /\ op = "crawlSite" => ret.value.results = results

\* the pages of a batch completed out of list order and their results are in
C4_Witness ==
    /\ outOfOrder
    /\ pc = "returned"
    /\ Len(results) = MaxUrls
    /\ results[1].url # results[2].url

\* C5: a relative image src of a page is resolved against the URL of that page.
C5_ImageResolvedAgainstOwnPage ==
    \A k \in 1..Len(results) :
        IsFullEntry(results[k]) =>
            results[k].issues.images[1].src
                = AbsoluteSrc(ImgOf(results[k].url), results[k].url)

\* C6: one browser session serves all pages of a crawl: the number of browsers
\* launched for page analysis does not grow with the number of URLs.
C6_OneLaunchForAllPages == launchCount <= 1

\* C7: a browser launched by checkSinglePage, countPages or discoverUrls is
\* closed exactly once before the function returns or throws.
C7_ClosedExactlyOnce ==
    /\ \A k \in DOMAIN tasks :
          /\ tasks[k].closes <= 1
          /\ tasks[k].st = "settled" =>
                tasks[k].closes = (IF tasks[k].launched THEN 1 ELSE 0)
    /\ dbrowser.closes <= 1
    /\ dpc \in {"returned", "thrown"} =>
          dbrowser.closes = (IF dbrowser.launched THEN 1 ELSE 0)

\* a page analysis has failed after its browser was launched
C7_Witness ==
    \E k \in DOMAIN tasks : /\ tasks[k].st = "settled" /\ tasks[k].launched
                            /\ ~tasks[k].out.ok /\ tasks[k].closes = 1

\* C8: a browser launch failure at any point of a crawlSite call aborts the
\* call; no CrawlResult is returned.
C8_LaunchFailureAborts ==
    (op = "crawlSite" /\ launchFailed) => pc # "returned"

(***************************************************************************)
(* Claims about checkSinglePage, checked under SpecPage                    *)
(***************************************************************************)
Parts == SubChecks \cup {"siteLinks"}

\* the part of page result r that sub-check s fills is empty
PartIsEmpty(s, r) ==
    CASE s = "lighthouse" -> r.issues.accessibility.lighthouse = <<>>
      [] s = "axe"        -> r.issues.accessibility.axe = <<>>
      [] s = "dom"        -> r.issues.images = <<>>
      [] s = "console"    -> r.issues.consoleErrors = <<>>
      [] s = "siteLinks"  -> r.siteLinks = <<>>

\* C9: whichever sub-check of checkSinglePage (performance audit,
\* accessibility audit, DOM analysis, console-error collection, site-link
\* collection) is the only one that failed after a successful navigation, the
\* call has returned a page result whose part for that sub-check is empty; it
\* has not thrown.
C9_SubCheckFailureDegrades ==
    \A s \in Parts :
        (ppc \in {"returned", "thrown"} /\ pages.main.nav = "done" /\ failed = {s})
            => (ppc = "returned" /\ PartIsEmpty(s, pret.value))

\* C10: when credentials with a non-empty username and password are supplied,
\* every page of the operation whose navigation has started (main page,
\* console-error page, fallback-score page) has the credentials attached.
C10_CredentialsBeforeNavigation ==
    HasCredentials(auth) =>
        \A p \in DOMAIN pages : pages[p].nav # "none" => pages[p].creds

ScoreNames == {"performance", "accessibility", "bestpractices", "seo"}

\* what calculateBasicScores can return for page u
FallbackResults(u) ==
    {ZeroScores}
        \cup {[scores |-> BasicScores(t, Metrics(u)), accessibility |-> <<>>] :
                 t \in LoadTimes}

\* C18: runLighthouse never rejects, and what it returns holds four numeric
\* scores: those of the audit when the audit ran, and when the audit threw or
\* the browser's endpoint or port was unusable those of the fallback
\* computation, or four zeros with an empty list of findings.
C18_LighthouseAlwaysScores ==
    /\ sub.lighthouse # "failed"
    /\ sub.lighthouse = "done" =>
          /\ DOMAIN val.lighthouse.scores = ScoreNames
          /\ \A n \in ScoreNames : val.lighthouse.scores[n] \in 0..100
          /\ IF "lighthouse" \in failed
             THEN val.lighthouse \in FallbackResults(purl)
             ELSE val.lighthouse = AuditResult(purl)

\* the audit threw, the fallback opened its page and then failed as well
C18_Witness ==
    /\ sub.lighthouse = "done"
    /\ "lighthouse" \in failed
    /\ pages.fallback.nav = "failed"
    /\ val.lighthouse = ZeroScores

\* C26: the browser of checkSinglePage is not closed while one of the four
\* sub-checks of the page is still in flight.
C26_NoCloseWhileSubCheckInFlight ==
    pbrowser.closes > 0 =>
        \A s \in SubChecks : sub[s] \in {"idle", "done", "failed"}

(***************************************************************************)
(* Claims about link discovery, checked under SpecDisc                     *)
(***************************************************************************)
Range(f) == {f[k] : k \in DOMAIN f}

NoDuplicates(f) == \A j, k \in DOMAIN f : j # k => f[j] # f[k]

\* the links of page u have been read and put through the filter
LinksRead(u) == u \in visited /\ u \notin navFailed /\ (u # cur \/ dpc = "loop")

\* C11: every URL in the queue and in the discovered list of the traversal has
\* the hostname of the start URL.
C11_SameHostname ==
    \A u \in Range(toVisit) \cup Range(discovered) : u.host = startUrl.host

\* the links of a page that links to another host have been filtered
C11_Witness ==
    /\ op = "discoverUrls"
    /\ LinksRead(WRoot)
    /\ External \in Range(LinksOf(WRoot))
    /\ Len(toVisit) >= 2

\* C12: the queue holds no URL twice and no URL that was visited, and the
\* discovered list holds no URL twice: a URL is navigated at most once and
\* returned at most once.
C12_NoUrlTwice ==
    /\ NoDuplicates(toVisit)
    /\ Range(toVisit) \cap visited = {}
    /\ NoDuplicates(discovered)
    /\ Range(discovered) = visited
    /\ (pc = "returned" /\ op = "discoverUrls") => NoDuplicates(ret.value)

\* a traversal has returned after reading pages that link to each other and
\* to pages already queued
C12_Witness ==
    /\ op = "discoverUrls" /\ pc = "returned"
    /\ LinksRead(WRoot) /\ LinksRead(WAbout) /\ LinksRead(WProducts)
    /\ WProducts \in Range(LinksOf(WRoot)) \cap Range(LinksOf(WAbout))

\* C13: no URL that the traversal has put on the queue ends in an excluded
\* extension (.pdf, .jpg, .css, .js, ...), also when the link it came from has
\* a trailing slash.
C13_NoExcludedExtensionQueued ==
    \A u \in Range(toVisit) : ~HasExcludedExtension(u)

\* C14: every URL that the traversal has put on the queue passes the policy of
\* validateUrl (HTTPS, neither localhost nor an IPv4 address).
C14_QueuedUrlsPassValidator ==
    \A u \in Range(toVisit) : validateUrl(u) = NoError

\* C15: for the same start URL and the same unreadable pages, countPages
\* returns as urls the list discoverUrls returns, and as totalPages its length.
C15_CountPagesSameTraversal ==
    /\ (op = "discoverUrls" /\ pc = "returned")
          => ret.value = DiscoveredFrom(startUrl, navFailed)
    /\ (op = "countPages" /\ pc = "returned")
          => /\ ret.value.urls = DiscoveredFrom(startUrl, navFailed)
             /\ ret.value.totalPages = Len(ret.value.urls)

\* countPages has returned from a site of several pages of which one could
\* not be loaded
C15_Witness ==
    /\ op = "countPages" /\ pc = "returned"
    /\ ret.value.totalPages >= 4
    /\ navFailed # {}
    /\ LinksRead(WRoot) /\ LinksRead(WProducts)

\* C16: a page of the traversal that fails to load is not fatal: the traversal
\* does not throw, the loop goes on with the queue as it was, the URL adds no
\* link, and the list returned holds the URLs discovered, the failed one too.
C16_NavigationFailureNotFatal ==
    /\ [](/\ navFailed # {} => dpc # "thrown"
          /\ dpc = "returned" => /\ toVisit = <<>>
                                 /\ dret.value = discovered
                                 /\ navFailed \subseteq Range(dret.value))
    /\ [][(dpc = "navigating" /\ dpc' # "extracting") =>
            /\ dpc' = "loop"
            /\ toVisit' = toVisit
            /\ discovered' = discovered
            /\ cur \in Range(discovered')]_vars

\* the traversal has returned several URLs although the navigation to one of
\* them failed while others were still queued
C16_Witness ==
    /\ op = "discoverUrls" /\ pc = "returned"
    /\ WAbout \in navFailed
    /\ WProducts \in Range(ret.value) /\ WAbout \in Range(ret.value)
    /\ Len(ret.value) >= 5

(***************************************************************************)
(* Claims about the server, checked under SpecServer                       *)
(***************************************************************************)
\* C17: the CrawlResult that POST /api/crawl answers with holds at most
\* MAX_PAGES page results (30 unless the environment sets another number).
C17_CrawlWithinMaxPages ==
    (spc = "done" /\ res.status = 200) =>
        Len(res.body.results) <= MaxPagesCap

\* C19: no line written to the console while a request is served holds the
\* username and password of the request.
C19_NoCredentialsInLog ==
    \A l \in log : ~(l.json.username # "" /\ l.json.password # "")

\* C27: a POST /api/crawl request with a valid startUrl and a number of pages
\* the route accepts (or none, for the default), when it is answered with a
\* CrawlResult, is answered with one whose totalPages is at least 1 and whose
\* results hold an entry for the start URL.
C27_CrawlAnalyzesStartUrl ==
    (/\ spc = "done"
     /\ validateUrl(req.body.startUrl) = NoError
     /\ MaxPagesOf(req.body).kind = "number"
     /\ ~ExceedsLimit(MaxPagesOf(req.body))
     /\ res.status = 200) =>
        /\ res.body.totalPages >= 1
        /\ \E k \in DOMAIN res.body.results :
              res.body.results[k].url = StripTrailingSlash(OriginPlusPathname(req.body.startUrl))

(***************************************************************************)
(* Claims about analyzeHeadings, checked under SpecHeadings                *)
(***************************************************************************)
\* the entries of the issue list with the given type
IssuesOfType(issues, type) == {k \in DOMAIN issues : issues[k].type = type}

\* C20: for every sequence of headings, the list analyzeHeadings returns holds
\* exactly one "no h1" error and no "multiple h1" warning when there is no h1,
\* exactly one "multiple h1" warning, naming N, and no "no h1" error when there
\* are N > 1 h1 elements, and neither of the two when there is exactly one.
C20_H1IssueMatchesCount ==
    (callee = "analyzeHeadings" /\ result # None) =>
        LET issues   == result.value
            N        == H1Count(args[1])
            missing  == IssuesOfType(issues, "no h1")
            multiple == IssuesOfType(issues, "multiple h1")
        IN  /\ Cardinality(missing) = (IF N = 0 THEN 1 ELSE 0)
            /\ Cardinality(multiple) = (IF N > 1 THEN 1 ELSE 0)
            /\ \A k \in missing : issues[k].severity = "error"
            /\ \A k \in multiple : /\ issues[k].severity = "warning"
                                   /\ issues[k].message.from = N

\* a document with two h1 elements got the warning naming 2, after the issue
\* of a skipped level
C20_Witness ==
    /\ callee = "analyzeHeadings" /\ result # None
    /\ H1Count(args[1]) = 2
    /\ Len(result.value) = 2
    /\ result.value[1].type = "heading level skip"
    /\ result.value[2].type = "multiple h1"
    /\ result.value[2].message.from = 2

\* the positions after the first whose level is more than one above the level
\* of the heading before
SkipPositions(headings) ==
    {k \in DOMAIN headings : k > 1 /\ headings[k].level > headings[k - 1].level + 1}

\* C21: for every sequence of headings the number of level-skip warnings is the
\* number of positions after the first whose level is more than one above the
\* level before; each such position has one warning, naming the two levels and
\* the element; the first heading, a step to the next level and a decrease
\* have none.
C21_OneWarningPerSkip ==
    (callee = "analyzeHeadings" /\ result # None) =>
        LET issues   == result.value
            headings == args[1]
            skips    == IssuesOfType(issues, "heading level skip")
        IN  /\ Cardinality(skips) = Cardinality(SkipPositions(headings))
            /\ \A k \in DOMAIN headings :
                  LET warned == {j \in skips :
                                    /\ issues[j].element = TagName(headings[k].level)
                                    /\ issues[j].message.to = headings[k].level
                                    /\ k > 1
                                    /\ issues[j].message.from = headings[k - 1].level}
                  IN  IF k \in SkipPositions(headings)
                      THEN warned # {} /\ \A j \in warned : issues[j].severity = "warning"
                      ELSE k = 1 => \A j \in skips : issues[j].message.from # 0

\* h3, h5, h4: the first heading is below h1 and has no warning, the step
\* from h3 to h5 has one, the decrease to h4 has none
C21_Witness ==
    /\ callee = "analyzeHeadings" /\ result # None
    /\ Len(args[1]) = 3
    /\ args[1][1].level = 3 /\ args[1][2].level = 5 /\ args[1][3].level = 4
    /\ Cardinality(IssuesOfType(result.value, "heading level skip")) = 1

(***************************************************************************)
(* Claims about validateUrl, checked under SpecValidate                    *)
(***************************************************************************)
\* the values the first test of the function takes for a missing URL: the
\* falsy ones
MissingValues == {Undefined, Null, EmptyString, NumberArg(0)}

\* C22: validateUrl returns null exactly for the strings that parse as a URL
\* with the https: protocol whose hostname is neither localhost, 127.0.0.1 nor
\* another dotted quad; for every other value it returns the message of the
\* first test that fails, in the order: missing, not a string, not parseable,
\* not https, localhost or 127.0.0.1, other dotted quad.
C22_ValidateUrlFirstFailingCheck ==
    (callee = "validateUrl" /\ result # None) =>
        LET v        == args[1]
            r        == result.value
            missing  == v \in MissingValues
            string   == ~missing /\ "scheme" \in DOMAIN v
            parses   == string /\ v # NotAUrl
            https    == parses /\ v.scheme = "https"
            remote   == https /\ v.host \notin {"localhost", "127.0.0.1"}
            named    == remote /\ v.host \notin {"10.0.0.1", "192.168.1.1"}
        IN  /\ (r = "null") <=> named
            /\ (r = "URL is required") <=> missing
            /\ (r = "URL must be a string") <=> (~missing /\ ~string)
            /\ (r = "Invalid URL format") <=> (string /\ ~parses)
            /\ (r = "Only HTTPS URLs are allowed") <=> (parses /\ ~https)
            /\ (r = "Localhost URLs are not allowed") <=> (https /\ ~remote)
            /\ (r = "IP addresses are not allowed") <=> (remote /\ ~named)

\* https://127.0.0.1, a dotted quad, got the message of the localhost test
C22_Witness ==
    /\ callee = "validateUrl" /\ result # None
    /\ "scheme" \in DOMAIN args[1]
    /\ args[1].scheme = "https" /\ args[1].host = "127.0.0.1"
    /\ result.value = "Localhost URLs are not allowed"

(***************************************************************************)
(* Claims about collectSiteLinks, checked under SpecSiteLinks              *)
(***************************************************************************)
\* C23: the siteLinks list has at most 20 entries, no two of its entries have
\* the same normalized URL, each entry has the hostname of the analyzed page,
\* and the list is empty when the collection of the links failed.
C23_SiteLinksBoundedDistinctSameHost ==
    (callee = "collectSiteLinks" /\ result # None) =>
        LET siteLinks == result.value
            pageUrl   == args[2]
        IN  /\ Len(siteLinks) <= 20
            /\ NoDuplicates([k \in DOMAIN siteLinks |->
                                StripTrailingSlash(OriginPlusPathname(siteLinks[k]))])
            /\ \A k \in DOMAIN siteLinks : siteLinks[k].host = pageUrl.host
            /\ result.caught => siteLinks = <<>>

\* a page with more than 20 links of its own host and a link to another host
\* among the first 20: the list holds 20 entries
C23_Witness ==
    /\ callee = "collectSiteLinks" /\ result # None
    /\ Len(args[1]) > 21
    /\ \E k \in 1..20 : args[1][k].host # args[2].host
    /\ Len(result.value) = 20

(***************************************************************************)
(* Claims about the traversal as a whole, checked under SpecDiscFair and   *)
(* SpecDisc                                                                *)
(***************************************************************************)
\* the URLs one step away from the set S: the targets of the http(s) links
\* that pass the filter on the pages of S that were read
LinkedFrom(S, startDomain, unreadable) ==
    UNION {{FinalUrl(LinksOf(u)[k], startDomain) :
               k \in {j \in DOMAIN LinksOf(u) : LinksOf(u)[j].scheme \in {"http", "https"}}} :
           u \in S \ unreadable}
      \ {NotAUrl}

RECURSIVE ReachableFrom(_, _, _)
ReachableFrom(S, startDomain, unreadable) ==
    LET T == S \cup LinkedFrom(S, startDomain, unreadable)
    IN  IF T = S THEN S ELSE ReachableFrom(T, startDomain, unreadable)

\* C24: the traversal ends on every site of the model, with an empty queue
\* when it returns, and the list it returns holds every URL that can be
\* reached from the normalized start URL through links that pass the filter
\* on pages that were read.
C24_TraversalEndsAndIsComplete ==
    /\ <>(pc \in {"returned", "thrown"})
    /\ [](dpc = "returned" =>
            /\ toVisit = <<>>
            /\ ReachableFrom({StripTrailingSlash(OriginPlusPathname(startUrl))},
                             startUrl.host, navFailed)
                  \subseteq Range(dret.value))

\* the traversal of w.com has returned a URL that is two links away from the
\* start page, although a page on the way to it has a link back to the start
C24_Witness ==
    /\ dpc = "returned" /\ startUrl = WRoot
    /\ navFailed = {}
    /\ WNews \in Range(dret.value)
    /\ WProducts \in Range(dret.value)
    /\ toVisit = <<>>

\* C25: when the traversal is about to take the next URL from the queue, the
\* page it opened for the URL before is closed.
C25_PageClosedBeforeNextDequeue ==
    dpc = "loop" => ~dpage.open

(***************************************************************************)
(* Claims about checkUnclosedTags, checked under SpecTags                  *)
(***************************************************************************)
\* the names of the elements open after the tags of well-nested markup, the
\* innermost last; <<"!">> when an end tag does not close the innermost one
RECURSIVE OpenElements(_)
OpenElements(tags) ==
    IF tags = <<>> THEN <<>>
    ELSE LET before == OpenElements(SubSeq(tags, 1, Len(tags) - 1))
             last   == tags[Len(tags)]
         IN  IF before = <<"!">> THEN before
             ELSE IF ~last.isClosing THEN Append(before, last.tagName)
             ELSE IF before # <<>> /\ before[Len(before)] = last.tagName
             THEN SubSeq(before, 1, Len(before) - 1)
             ELSE <<"!">>

WellBalanced(tags) ==
    /\ \A k \in DOMAIN tags : tags[k].tagName \notin voidElements
    /\ OpenElements(tags) = <<>>

Without(tags, k) == SubSeq(tags, 1, k - 1) \o SubSeq(tags, k + 1, Len(tags))

\* the tag at k is an end tag of a non-void element that is not open there,
\* and the markup without it is well balanced
StrayEndTagAt(tags, k) ==
    /\ tags[k].isClosing
    /\ tags[k].tagName \notin voidElements
    /\ WellBalanced(Without(tags, k))
    /\ \A j \in DOMAIN OpenElements(SubSeq(tags, 1, k - 1)) :
          OpenElements(SubSeq(tags, 1, k - 1))[j] # tags[k].tagName

\* C28: for well-balanced markup of non-void elements with one stray end tag
\* put in, the check reports exactly one error: no matching opening tag, for
\* that end tag.
C28_StrayEndTagOneError ==
    (callee = "checkUnclosedTags" /\ result # None) =>
        \A k \in DOMAIN args[1] :
            StrayEndTagAt(args[1], k) =>
                /\ Len(result.value) = 1
                /\ result.value[1].type = "closing tag error"
                /\ result.value[1].position = k
                /\ result.value[1].element = args[1][k].tagName

(***************************************************************************)
(* Claims about analyzeImages, checked under SpecSvg                       *)
(***************************************************************************)
\* an svg is accessible with role="img" and a description (aria-label or
\* title), with role="presentation", with aria-labelledby, or with a title
SvgAccessible(svg) ==
    \/ svg.role = "img" /\ (svg.ariaLabel # "" \/ svg.title # "")
    \/ svg.role = "presentation"
    \/ svg.ariaLabelledby # ""
    \/ svg.title # ""

\* C29: the issues of analyzeImages hold the svg accessibility warning for
\* exactly the svg elements that are not accessible, in document order.
C29_SvgWarningIffNotAccessible ==
    (callee = "analyzeImages" /\ result # None) =>
        LET inaccessible == SelectSeq(args[1], LAMBDA svg : ~SvgAccessible(svg))
        IN  /\ Len(result.value) = Len(inaccessible)
            /\ \A k \in DOMAIN result.value :
                  /\ result.value[k].type = "svg accessibility"
                  /\ result.value[k].details.role = inaccessible[k].role
                  /\ result.value[k].details.ariaLabel = inaccessible[k].ariaLabel

(***************************************************************************)
(* Claims about the fallback scores, checked under SpecScores              *)
(***************************************************************************)
\* C30: each fallback score is a whole number in 0..100: performance is 100
\* less one point per full 50 ms of load time and 0 from 5000 ms on,
\* accessibility is 100 less 10 per image without alt and not below 0, seo is
\* 40 for a title plus 40 for a description plus 20 for an h1, bestpractices
\* is 100 less one point per resource beyond 50 and not below 0.
C30_FallbackScoreFormulas ==
    (callee = "calculateBasicScores" /\ result # None) =>
        LET loadTime == args[1]
            metrics  == args[2]
            scores   == result.value.scores
        IN  /\ \A n \in ScoreNames : scores[n] \in 0..100
            /\ IF loadTime >= 5000 THEN scores.performance = 0
               ELSE /\ 50 * (100 - scores.performance) <= loadTime
                    /\ loadTime < 50 * (100 - scores.performance) + 50
            /\ scores.accessibility =
                  (IF metrics.imagesWithoutAlt >= 10 THEN 0
                   ELSE 100 - 10 * metrics.imagesWithoutAlt)
            /\ scores.seo = 40 * (IF metrics.hasTitle THEN 1 ELSE 0)
                            + 40 * (IF metrics.hasDescription THEN 1 ELSE 0)
                            + 20 * (IF metrics.hasH1 THEN 1 ELSE 0)
            /\ scores.bestpractices =
                  (IF metrics.resourceCount <= 50 THEN 100
                   ELSE IF metrics.resourceCount >= 150 THEN 0
                   ELSE 150 - metrics.resourceCount)

\* a page that took 6 s to load, with more than ten images without alt and
\* 62 resources: performance and accessibility are 0, bestpractices is 88
C30_Witness ==
    /\ callee = "calculateBasicScores" /\ result # None
    /\ args[1] = 6000
    /\ args[2].imagesWithoutAlt = 11
    /\ args[2].resourceCount = 62
    /\ result.value.scores.performance = 0
    /\ result.value.scores.accessibility = 0
    /\ result.value.scores.bestpractices = 88

====
